---- MODULE Spec2Model ----
(***************************************************************************)
(* Model of the conversational portfolio runtime: the command dispatcher   *)
(* (App.handleCommand), the loop scheduler (App loop effect), the session  *)
(* store and the realtime voice client (RealtimeVoiceClient), as a state   *)
(* machine over React state, refs, in-flight promises and timers.          *)
(***************************************************************************)
EXTENDS Integers, Sequences, FiniteSets, TLC

(***************************************************************************)
(* Bounds of the model.                                                    *)
(***************************************************************************)
MaxTyped == 2
MaxLoopTyped == 3
MaxPending == 2
MaxLoopPending == 1
MaxHeard == 2
MaxStarts == 2
MaxClicks == 2
MaxEvents == 3
MaxTicks == 3
MaxPanelTyped == 2
MaxLanguageTyped == 2

\* mutations applied in a row to one screen
MaxOverlapTyped == 3
MaxRotateTyped == 4
MaxHints == 3
MaxPrefChanges == 2
MaxApplied == 2

\* phrases put together into one text for the intent classifier
MaxParts == 2

\* page loads and session operations of one run of the session store
MaxLoads == 2
MaxSessionOps == 2

(***************************************************************************)
(* JavaScript string helpers. Texts are strings; a character is a string   *)
(* of length one.                                                          *)
(***************************************************************************)
Null == "<null>"

UpperChars == "ABCDEFGHIJKLMNOPQRSTUVWXYZ"
LowerChars == "abcdefghijklmnopqrstuvwxyz"

CharAt(s, i) == SubSeq(s, i, i)

LowerChar(c) ==
  IF \E i \in 1..Len(UpperChars) : CharAt(UpperChars, i) = c
  THEN CharAt(LowerChars, CHOOSE i \in 1..Len(UpperChars) : CharAt(UpperChars, i) = c)
  ELSE c

RECURSIVE LowerFrom(_, _)
LowerFrom(s, i) ==
  IF i > Len(s) THEN "" ELSE LowerChar(CharAt(s, i)) \o LowerFrom(s, i + 1)

toLowerCase(s) == LowerFrom(s, 1)

IsSpace(c) == c = " "

RECURSIVE trimStart(_)
trimStart(s) ==
  IF Len(s) > 0 /\ IsSpace(CharAt(s, 1)) THEN trimStart(SubSeq(s, 2, Len(s))) ELSE s

RECURSIVE trimEnd(_)
trimEnd(s) ==
  IF Len(s) > 0 /\ IsSpace(CharAt(s, Len(s))) THEN trimEnd(SubSeq(s, 1, Len(s) - 1)) ELSE s

trim(s) == trimEnd(trimStart(s))

includes(text, w) ==
  \E i \in 0..(Len(text) - Len(w)) : SubSeq(text, i + 1, i + Len(w)) = w

startsWith(text, w) == Len(text) >= Len(w) /\ SubSeq(text, 1, Len(w)) = w

endsWith(text, w) ==
  Len(text) >= Len(w) /\ SubSeq(text, Len(text) - Len(w) + 1, Len(text)) = w

hasAny(text, candidates) == \E w \in candidates : includes(text, w)

(***************************************************************************)
(* Intent classifier.                                                      *)
(***************************************************************************)
Intent(t, tech) == [type |-> t, tech |-> tech]

detectTech(text) ==
  IF hasAny(text, {"java"}) THEN "java"
  ELSE IF hasAny(text, {"backend", "server", "api"}) THEN "backend"
  ELSE IF hasAny(text, {"firebase", "fire base"}) THEN "firebase"
  ELSE Null

\* variant: the walkthrough rule is tried before the CV rule
parseIntentLoopFirst(input) ==
  LET text == trim(toLowerCase(input)) IN
  IF text = "" THEN Intent("UNKNOWN", Null)
  ELSE IF hasAny(text, {"language", "language selection", "choose language",
                        "select language", "sprache", "sprachwahl",
                        "sprache auswählen", "sprache waehlen"})
    THEN Intent("SHOW_LANGUAGE_SELECTION", Null)
  ELSE IF text = "english" \/ text = "set english" \/ includes(text, "switch to english")
    THEN Intent("SET_LANGUAGE_EN", Null)
  ELSE IF \/ text = "deutsch" \/ text = "german" \/ text = "auf deutsch"
          \/ includes(text, "switch to german")
          \/ includes(text, "auf deutsch umstellen")
    THEN Intent("SET_LANGUAGE_DE", Null)
  ELSE IF hasAny(text, {"loop through", "go through all", "go through them all",
                        "show and explain all one by one", "step through",
                        "step through them", "walk me through",
                        "walk through the timeline", "loop the timeline"})
    THEN Intent("LOOP_TIMELINE", Null)
  ELSE IF hasAny(text, {"cv", "curriculum", "lebenslauf", "resume"})
    THEN Intent("SHOW_CV", Null)
  ELSE IF \/ text = "back" \/ text = "go back"
          \/ hasAny(text, {"go back", "zurück"})
          \/ (hasAny(text, {"back", "zurück"}) /\ hasAny(text, {"screen", "view"}))
          \/ hasAny(text, {"previous screen", "prev screen"})
    THEN Intent("GO_BACK", Null)
  ELSE LET tech == detectTech(text)
           mentionsProjects == hasAny(text, {"project", "projects", "work", "examples"})
           soundsLikeShow == hasAny(text, {"show", "see", "only", "filter",
                                           "zeige", "nur", "filtern"})
       IN IF mentionsProjects \/ (soundsLikeShow /\ tech # Null)
            THEN Intent("SHOW_PROJECTS", tech)
          ELSE IF hasAny(text, {"something else", "anything else", "more projects",
                                "more work", "show more", "next", "next project",
                                "next portfolio item", "etwas anderes",
                                "mehr projekte", "nächstes"})
            THEN Intent("SHOW_ANY_PROJECTS", Null)
          ELSE Intent("UNKNOWN", Null)

parseIntent(input) ==
  LET text == trim(toLowerCase(input)) IN
  IF text = "" THEN Intent("UNKNOWN", Null)
  ELSE IF hasAny(text, {"language", "language selection", "choose language",
                        "select language", "sprache", "sprachwahl",
                        "sprache auswählen", "sprache waehlen"})
    THEN Intent("SHOW_LANGUAGE_SELECTION", Null)
  ELSE IF text = "english" \/ text = "set english" \/ includes(text, "switch to english")
    THEN Intent("SET_LANGUAGE_EN", Null)
  ELSE IF \/ text = "deutsch" \/ text = "german" \/ text = "auf deutsch"
          \/ includes(text, "switch to german")
          \/ includes(text, "auf deutsch umstellen")
    THEN Intent("SET_LANGUAGE_DE", Null)
  ELSE IF hasAny(text, {"cv", "curriculum", "lebenslauf", "resume"})
    THEN Intent("SHOW_CV", Null)
  ELSE IF hasAny(text, {"loop through", "go through all", "go through them all",
                        "show and explain all one by one", "step through",
                        "step through them", "walk me through",
                        "walk through the timeline", "loop the timeline"})
    THEN Intent("LOOP_TIMELINE", Null)
  ELSE IF \/ text = "back" \/ text = "go back"
          \/ hasAny(text, {"go back", "zurück"})
          \/ (hasAny(text, {"back", "zurück"}) /\ hasAny(text, {"screen", "view"}))
          \/ hasAny(text, {"previous screen", "prev screen"})
    THEN Intent("GO_BACK", Null)
  ELSE LET tech == detectTech(text)
           mentionsProjects == hasAny(text, {"project", "projects", "work", "examples"})
           soundsLikeShow == hasAny(text, {"show", "see", "only", "filter",
                                           "zeige", "nur", "filtern"})
       IN IF mentionsProjects \/ (soundsLikeShow /\ tech # Null)
            THEN Intent("SHOW_PROJECTS", tech)
          ELSE IF hasAny(text, {"something else", "anything else", "more projects",
                                "more work", "show more", "next", "next project",
                                "next portfolio item", "etwas anderes",
                                "mehr projekte", "nächstes"})
            THEN Intent("SHOW_ANY_PROJECTS", Null)
          ELSE Intent("UNKNOWN", Null)

\* what the model's users type and say
TypedTexts ==
  {" Stop ", "go back", "cv", "loop the timeline", "add tag Go", "java projects"}

LoopTexts == {"cv", "loop the timeline", " Stop "}

VoiceTexts == {"stop", "cv", "language"}

LanguageTexts == {"language", "Deutsch", "switch to english", "cv"}

RotateTexts == {"something else", "cv"}

Utterances ==
  TypedTexts \cup LoopTexts \cup VoiceTexts \cup LanguageTexts \cup RotateTexts

\* parseIntent of every utterance, computed once
Intents == [t \in {trim(x) : x \in Utterances} |-> parseIntent(t)]

\* parseIntent of an utterance, looked up
intentOf(text) == Intents[text]

(***************************************************************************)
(* Screen model: the static screens and the project registry.             *)
(***************************************************************************)
allProjects ==
  << [id |-> "java-vocab-trainer", kind |-> "cli", techStack |-> <<"Java", "OOP">>],
     [id |-> "easytagsy", kind |-> "fullstack",
      techStack |-> <<"React", "TypeScript", "Firebase", "Stripe", "OpenAI">>],
     [id |-> "cdui-portfolio", kind |-> "frontend",
      techStack |-> <<"React", "TypeScript", "Vite">>] >>

SeqHas(seq, x) == \E i \in 1..Len(seq) : seq[i] = x

projectListFromProjects(projects) ==
  [type |-> "project_list",
   projects |-> [i \in 1..Len(projects) |->
                   [id |-> projects[i].id, techStack |-> projects[i].techStack]]]

IsJavaProject(p) == SeqHas(p.techStack, "Java")
IsBackendProject(p) == p.kind \in {"backend", "fullstack", "cli"}

ButtonRow(ids) == [type |-> "button_row", buttons |-> ids]

homeScreen ==
  [screenId |-> "home", layout |-> "column",
   widgets |-> <<
     [type |-> "text", content |-> "Welcome"],
     projectListFromProjects(allProjects),
     [type |-> "info_card", title |-> "Interface driven by conversation"],
     [type |-> "tag_list", tags |-> <<"React", "TypeScript", "Vite", "CDUI runtime">>],
     [type |-> "skill_matrix",
      rows |-> << [area |-> "Frontend",
                   skills |-> <<"React", "TypeScript", "HTML", "CSS">>,
                   level |-> "solid foundation"],
                  [area |-> "Backend / Fullstack",
                   skills |-> <<"Firebase", "REST APIs", "Auth", "Stripe basics">>,
                   level |-> "growing experience"],
                  [area |-> "Programming languages",
                   skills |-> <<"Java", "C#", "Python (basics)">>,
                   level |-> "active learning"],
                  [area |-> "Tooling",
                   skills |-> <<"Git", "GitHub", "VS Code", "Node.js">>,
                   level |-> "daily use"] >>],
     ButtonRow(<<"talk_to_interface">>) >>]

javaScreen ==
  [screenId |-> "java_projects", layout |-> "column",
   widgets |-> <<
     [type |-> "text", content |-> "Java-focused projects"],
     projectListFromProjects(SelectSeq(allProjects, IsJavaProject)),
     [type |-> "info_card", title |-> "Why Java matters here"],
     [type |-> "tag_list", tags |-> <<"Java", "OOP", "CLI tools">>],
     ButtonRow(<<"talk_to_interface">>) >>]

backendScreen ==
  [screenId |-> "backend_projects", layout |-> "column",
   widgets |-> <<
     [type |-> "text", content |-> "Backend-oriented projects"],
     projectListFromProjects(SelectSeq(allProjects, IsBackendProject)),
     [type |-> "info_card", title |-> "Backend and infrastructure focus"],
     [type |-> "tag_list",
      tags |-> <<"Firebase", "Stripe", "Auth", "APIs", "Fullstack thinking">>],
     ButtonRow(<<"talk_to_interface">>) >>]

cvScreen ==
  [screenId |-> "cv_download", layout |-> "column",
   widgets |-> <<
     [type |-> "text", content |-> "CV download"],
     [type |-> "text", content |-> "In a later version"],
     [type |-> "timeline",
      entries |-> << [id |-> "wbs-ausbildung", title |-> "Umschulung",
                      period |-> "2024 - 2026"],
                     [id |-> "bth-web", title |-> "Webbprogrammering studies",
                      period |-> "2024 -"],
                     [id |-> "pre-it", title |-> "Previous professional experience",
                      period |-> "Before 2024"] >>],
     [type |-> "tag_list",
      tags |-> <<"Java", "C#", "React", "TypeScript", "SQL", "Backend basics">>],
     ButtonRow(<<"download_cv", "talk_to_interface">>) >>]

(***************************************************************************)
(* Mutation engine.                                                        *)
(***************************************************************************)
MapWidgets(screen, F(_)) ==
  [screen EXCEPT !.widgets = [i \in 1..Len(screen.widgets) |-> F(screen.widgets[i])]]

\* variant: only the first tag list of the screen is changed
addTagFirstOnly(screen, tag) ==
  LET first == {i \in 1..Len(screen.widgets) : screen.widgets[i].type = "tag_list"}
      F(i) == IF i \in first /\ \A j \in first : i <= j
              THEN [screen.widgets[i] EXCEPT
                      !.tags = IF SeqHas(@, tag) THEN @ ELSE Append(@, tag)]
              ELSE screen.widgets[i]
  IN [screen EXCEPT !.widgets = [i \in 1..Len(screen.widgets) |-> F(i)]]

addTag(screen, tag) ==
  LET F(w) == IF w.type = "tag_list"
              THEN [w EXCEPT !.tags = IF SeqHas(w.tags, tag) THEN w.tags
                                      ELSE Append(w.tags, tag)]
              ELSE w
  IN MapWidgets(screen, F)

\* variant: the filter compares the tags as written
removeTagExact(screen, tag) ==
  LET Keep(t) == t # tag
      F(w) == IF w.type = "tag_list"
              THEN [w EXCEPT !.tags = SelectSeq(w.tags, Keep)]
              ELSE w
  IN MapWidgets(screen, F)

removeTag(screen, tag) ==
  LET Keep(t) == toLowerCase(t) # toLowerCase(tag)
      F(w) == IF w.type = "tag_list"
              THEN [w EXCEPT !.tags = SelectSeq(w.tags, Keep)]
              ELSE w
  IN MapWidgets(screen, F)

rowMatches(row, area) ==
  LET areaLower == toLowerCase(area) IN
  toLowerCase(row.area) = areaLower \/ includes(toLowerCase(row.area), areaLower)

addSkill(screen, area, skill) ==
  LET R(row) == IF ~rowMatches(row, area) THEN row
                ELSE IF SeqHas(row.skills, skill) THEN row
                ELSE [row EXCEPT !.skills = Append(row.skills, skill)]
      F(w) == IF w.type # "skill_matrix" THEN w
              ELSE [w EXCEPT !.rows = [i \in 1..Len(w.rows) |-> R(w.rows[i])]]
  IN MapWidgets(screen, F)

changeLevel(screen, area, level) ==
  LET R(row) == IF ~rowMatches(row, area) THEN row ELSE [row EXCEPT !.level = level]
      F(w) == IF w.type # "skill_matrix" THEN w
              ELSE [w EXCEPT !.rows = [i \in 1..Len(w.rows) |-> R(w.rows[i])]]
  IN MapWidgets(screen, F)

addTimelineEntry(screen, entry) ==
  LET F(w) == IF w.type # "timeline" THEN w
              ELSE [w EXCEPT !.entries = Append(w.entries, entry)]
  IN MapWidgets(screen, F)

filterProjects(screen, tech) ==
  LET techLower == toLowerCase(tech)
      Uses(proj) == \E i \in 1..Len(proj.techStack) :
                      includes(toLowerCase(proj.techStack[i]), techLower)
      F(w) == IF w.type # "project_list" THEN w
              ELSE [w EXCEPT !.projects = SelectSeq(w.projects, Uses)]
  IN MapWidgets(screen, F)

KnownKinds ==
  {"ADD_TAG", "REMOVE_TAG", "ADD_SKILL", "CHANGE_LEVEL", "ADD_TIMELINE_ENTRY",
   "FILTER_PROJECTS"}

\* variant: a kind outside the known ones empties the screen
applyMutationRejecting(screen, mutation) ==
  CASE mutation.kind = "ADD_TAG" -> addTag(screen, mutation.tag)
    [] mutation.kind = "REMOVE_TAG" -> removeTag(screen, mutation.tag)
    [] mutation.kind = "ADD_SKILL" -> addSkill(screen, mutation.area, mutation.skill)
    [] mutation.kind = "CHANGE_LEVEL" -> changeLevel(screen, mutation.area, mutation.level)
    [] mutation.kind = "ADD_TIMELINE_ENTRY" -> addTimelineEntry(screen, mutation.entry)
    [] mutation.kind = "FILTER_PROJECTS" -> filterProjects(screen, mutation.tech)
    [] OTHER -> [screen EXCEPT !.widgets = <<>>]

applyMutation(screen, mutation) ==
  CASE mutation.kind = "ADD_TAG" -> addTag(screen, mutation.tag)
    [] mutation.kind = "REMOVE_TAG" -> removeTag(screen, mutation.tag)
    [] mutation.kind = "ADD_SKILL" -> addSkill(screen, mutation.area, mutation.skill)
    [] mutation.kind = "CHANGE_LEVEL" -> changeLevel(screen, mutation.area, mutation.level)
    [] mutation.kind = "ADD_TIMELINE_ENTRY" -> addTimelineEntry(screen, mutation.entry)
    [] mutation.kind = "FILTER_PROJECTS" -> filterProjects(screen, mutation.tech)
    [] OTHER -> screen

\* applyMutation returns its argument itself only in the default branch; every
\* known kind builds a new object, so the result is then a different reference.
returnsSameRef(mutation) == mutation.kind \notin KnownKinds

RECURSIVE applyAll(_, _)
applyAll(screen, mutations) ==
  IF mutations = <<>> THEN screen
  ELSE applyAll(applyMutation(screen, Head(mutations)), Tail(mutations))

(***************************************************************************)
(* Local rule engine (decideFromText). The regular expressions of the      *)
(* UNKNOWN branch are computed on the lower-cased text (flag i) and the    *)
(* groups are cut out of the raw text.                                     *)
(***************************************************************************)
Last(seq) == seq[Len(seq)]

Slice(s, a, b) == IF a > b THEN "" ELSE SubSeq(s, a, b)

\* positions k >= from where w occurs in s
Occurs(s, w, from) ==
  {k \in from..(Len(s) - Len(w) + 1) : SubSeq(s, k, k + Len(w) - 1) = w}

Min(S) == CHOOSE x \in S : \A y \in S : x <= y

normalizeAreaName(input) ==
  LET s == toLowerCase(input) IN
  IF includes(s, "front") THEN "Frontend"
  ELSE IF includes(s, "back") \/ includes(s, "fullstack") THEN "Backend / Fullstack"
  ELSE IF includes(s, "program") \/ includes(s, "language") THEN "Programming languages"
  ELSE IF includes(s, "tool") THEN "Tooling"
  ELSE IF includes(s, "werkzeug") THEN "Tooling"
  ELSE IF includes(s, "sprache") \/ includes(s, "programmiersprache")
    THEN "Programming languages"
  ELSE IF includes(s, "backend") \/ includes(s, "server") \/ includes(s, "voll")
    THEN "Backend / Fullstack"
  ELSE IF includes(s, "frontend") THEN "Frontend"
  ELSE Null

Push(screen, prompt) == [kind |-> "push", screen |-> screen, systemPrompt |-> prompt]
Noop(prompt) == [kind |-> "noop", systemPrompt |-> prompt]

\* /^add (.+?) to (.+)$/i : the cut positions, or {} when it does not match
addSkillCuts(raw) ==
  LET L == toLowerCase(raw) IN
  IF startsWith(L, "add ")
  THEN {k \in Occurs(L, " to ", 6) : k + 4 <= Len(L)}
  ELSE {}

\* /^(change|set) (.+?) level to (.+)$/i
levelPrefixLen(raw) ==
  LET L == toLowerCase(raw) IN
  IF startsWith(L, "change ") THEN 7 ELSE IF startsWith(L, "set ") THEN 4 ELSE 0

levelCuts(raw) ==
  LET L == toLowerCase(raw)
      p == levelPrefixLen(raw)
  IN IF p > 0 THEN {k \in Occurs(L, " level to ", p + 2) : k + 10 <= Len(L)} ELSE {}

\* /^add (.+?) to timeline$/i
timelineMatches(raw) ==
  LET L == toLowerCase(raw) IN
  startsWith(L, "add ") /\ endsWith(L, " to timeline") /\ Len(L) >= 17

\* /(?:show|filter|only).*?(?:projects?)?.*?(?:using|with|by)\s+(.+)$/i :
\* the positions where group 1 may start
projectCuts(raw) ==
  LET L == toLowerCase(raw)
      verbEnds == UNION {{k + Len(w) : k \in Occurs(L, w, 1)} :
                           w \in {"show", "filter", "only"}}
  IN IF verbEnds = {} THEN {}
     ELSE UNION {{j + Len(w) + 1 :
                    j \in {i \in Occurs(L, w, Min(verbEnds)) :
                             /\ i + Len(w) + 1 <= Len(L)
                             /\ IsSpace(CharAt(L, i + Len(w)))}} :
                 w \in {"using", "with", "by"}}

\* /^add (.+?)(?: tag)?$/i and /^remove (.+?)(?: tag)?$/i : group 1
tagGroup(raw, prefix) ==
  LET L == toLowerCase(raw)
      p == Len(prefix)
  IN IF ~(startsWith(L, prefix) /\ Len(L) >= p + 1) THEN Null
     ELSE IF endsWith(L, " tag") /\ Len(L) - 4 >= p + 1
       THEN Slice(raw, p + 1, Len(raw) - 4)
     ELSE Slice(raw, p + 1, Len(raw))

\* the UNKNOWN branch up to the mutation it builds: which pattern matched and
\* the groups it captured (the timeline entry gets its id when it is built)
unknownRule(text) ==
  LET rawText == trim(text)
      sk == addSkillCuts(rawText)
      skArea == IF sk = {} THEN Null
                ELSE normalizeAreaName(trim(Slice(rawText, Min(sk) + 4, Len(rawText))))
      lv == levelCuts(rawText)
      lvArea == IF lv = {} THEN Null
                ELSE normalizeAreaName(
                       trim(Slice(rawText, levelPrefixLen(rawText) + 1, Min(lv) - 1)))
      pr == projectCuts(rawText)
      addG == tagGroup(rawText, "add ")
      remG == tagGroup(rawText, "remove ")
      Rule(kind, x, y) == [kind |-> kind, x |-> x, y |-> y]
  IN IF sk # {} /\ skArea # Null
       THEN Rule("ADD_SKILL", skArea, trim(Slice(rawText, 5, Min(sk) - 1)))
     ELSE IF lv # {} /\ lvArea # Null
       THEN Rule("CHANGE_LEVEL", lvArea, trim(Slice(rawText, Min(lv) + 10, Len(rawText))))
     ELSE IF timelineMatches(rawText)
       THEN Rule("ADD_TIMELINE_ENTRY", trim(Slice(rawText, 5, Len(rawText) - 12)), "")
     ELSE IF pr # {}
       THEN Rule("FILTER_PROJECTS", trim(Slice(rawText, Min(pr), Len(rawText))), "")
     ELSE IF addG # Null THEN Rule("ADD_TAG", trim(addG), "")
     ELSE IF remG # Null THEN Rule("REMOVE_TAG", trim(remG), "")
     ELSE Rule("none", "", "")

\* unknownRule of every utterance, computed once
UnknownRules == [x \in DOMAIN Intents |-> unknownRule(x)]

ruleOf(text) == UnknownRules[text]

\* the mutation of the rule that matched, applied to the current screen
decideRule(r, current, t) ==
  CASE r.kind = "ADD_SKILL" ->
         Push(applyMutation(current, [kind |-> "ADD_SKILL", area |-> r.x, skill |-> r.y]),
              "Added skill to the skill matrix.")
    [] r.kind = "CHANGE_LEVEL" ->
         Push(applyMutation(current, [kind |-> "CHANGE_LEVEL", area |-> r.x, level |-> r.y]),
              "Updated level.")
    [] r.kind = "ADD_TIMELINE_ENTRY" ->
         Push(applyMutation(current,
                [kind |-> "ADD_TIMELINE_ENTRY",
                 entry |-> [id |-> "custom-" \o ToString(t), title |-> r.x,
                            period |-> "to be decided"]]),
              "Added a new timeline entry.")
    [] r.kind = "FILTER_PROJECTS" ->
         Push(applyMutation(current, [kind |-> "FILTER_PROJECTS", tech |-> r.x]),
              "Filtered projects.")
    [] r.kind = "ADD_TAG" ->
         Push(applyMutation(current, [kind |-> "ADD_TAG", tag |-> r.x]),
              "Added tag to this view.")
    [] r.kind = "REMOVE_TAG" ->
         Push(applyMutation(current, [kind |-> "REMOVE_TAG", tag |-> r.x]),
              "Removed tag from this view.")
    [] OTHER -> Noop("I didn't fully understand that.")

decideUnknown(text, current, t) == decideRule(ruleOf(text), current, t)

\* variant: the cycle runs home, java, backend, home
anyProjectsScreenJavaFirst(current) ==
  IF current.screenId = "home" THEN javaScreen
  ELSE IF current.screenId = "java_projects" THEN backendScreen
  ELSE homeScreen

\* SHOW_ANY_PROJECTS: "Simple cycle: home, backend, java, home ..."
anyProjectsScreen(current) ==
  IF current.screenId = "home" THEN backendScreen
  ELSE IF current.screenId = "backend_projects" THEN javaScreen
  ELSE homeScreen

\* the switch of decideFromText on the parsed intent
decideIntent(intent, text, current, t) ==
     CASE intent.type = "SHOW_CV" -> Push(cvScreen, "Opening the CV view.")
       [] intent.type = "SHOW_PROJECTS" ->
            Push(IF intent.tech = "java" THEN javaScreen
                 ELSE IF intent.tech \in {"backend", "firebase"} THEN backendScreen
                 ELSE homeScreen,
                 "Showing projects.")
       [] intent.type = "SHOW_ANY_PROJECTS" ->
            Push(anyProjectsScreen(current),
                 "Showing another perspective on the portfolio.")
       [] intent.type = "SHOW_LANGUAGE_SELECTION" -> Noop("Language selection.")
       [] intent.type = "SET_LANGUAGE_EN" -> Noop("Language set to English.")
       [] intent.type = "SET_LANGUAGE_DE" -> Noop("Sprache auf Deutsch eingestellt.")
       [] intent.type \in {"GO_BACK", "LOOP_TIMELINE"} -> Noop("Okay.")
       [] OTHER -> decideUnknown(text, current, t)

decideFromText(text, history, t) ==
  decideIntent(intentOf(text), text, Last(history), t)

(***************************************************************************)
(* Session store. A session is the in-memory SessionContext; write-through *)
(* to the persistent store is the caller's `stored` field.                 *)
(***************************************************************************)
ScreenIds == {"home", "java_projects", "backend_projects", "cv_download"}

freshSession(t) ==
  [visits |-> 1, lastVisit |-> t, screensViewed |-> [id \in ScreenIds |-> 0],
   lastFocus |-> Null, personaHints |-> <<>>, voiceEnabled |-> FALSE,
   uiLanguage |-> "en", showLanguagePicker |-> FALSE]

markScreen(ctx, screenId, t) ==
  [ctx EXCEPT !.screensViewed[screenId] = @ + 1, !.lastFocus = screenId,
              !.lastVisit = t]

getPersonaPreference(ctx) ==
  IF SeqHas(ctx.personaHints, "pref_concise") THEN "concise"
  ELSE IF SeqHas(ctx.personaHints, "pref_detailed") THEN "detailed"
  ELSE "balanced"

\* variant: the new hint is added to the hints as they are
setPersonaPreferenceAppending(ctx, pref, t) ==
  LET newHints == IF pref = "concise" THEN Append(ctx.personaHints, "pref_concise")
                  ELSE IF pref = "detailed" THEN Append(ctx.personaHints, "pref_detailed")
                  ELSE ctx.personaHints
  IN [ctx EXCEPT !.personaHints = newHints, !.lastVisit = t]

setPersonaPreference(ctx, pref, t) ==
  LET NotPref(h) == ~startsWith(h, "pref_")
      baseHints == SelectSeq(ctx.personaHints, NotPref)
      newHints == IF pref = "concise" THEN Append(baseHints, "pref_concise")
                  ELSE IF pref = "detailed" THEN Append(baseHints, "pref_detailed")
                  ELSE baseHints
  IN [ctx EXCEPT !.personaHints = newHints, !.lastVisit = t]

setUILanguage(ctx, lang, t) == [ctx EXCEPT !.uiLanguage = lang, !.lastVisit = t]

showLanguageSelection(ctx, show, t) ==
  [ctx EXCEPT !.showLanguagePicker = show, !.lastVisit = t]

(***************************************************************************)
(* The persisted blob and loadSession. The item under the key is absent   *)
(* (or the empty string), a text JSON.parse rejects, the JSON text null,   *)
(* or a JSON object: val gives the fields that hold a value of their       *)
(* type, missing names the fields that are missing or null, odd names the  *)
(* fields that hold a value of another type (a number where a map, a list  *)
(* or a string is declared, a string elsewhere). A session in memory is    *)
(* the context with the names of the fields that hold such a value.        *)
(***************************************************************************)
SessionFields ==
  {"visits", "screensViewed", "lastFocus", "personaHints", "voiceEnabled",
   "uiLanguage", "showLanguagePicker"}

\* the fields loadSession takes over with ?? and no typeof test
UncheckedFields == {"screensViewed", "lastFocus", "personaHints"}

AbsentBlob == [kind |-> "absent"]

stringify(session) ==
  [kind |-> "object", val |-> session.ctx, missing |-> {}, odd |-> session.odd]

\* localStorage.setItem inside try/catch
saveSession(store, session) ==
  IF store.canWrite THEN [store EXCEPT !.blob = stringify(session)] ELSE store

normalized(stored, t) ==
  LET Usable(f) == f \notin stored.missing /\ f \notin stored.odd
      Coalesce(f, default) == IF f \in stored.missing \/ f \in stored.odd
                              THEN default ELSE stored.val[f]
  IN [ctx |-> [visits |-> IF Usable("visits") /\ stored.val.visits >= 0
                          THEN stored.val.visits + 1 ELSE 1,
               lastVisit |-> t,
               screensViewed |-> Coalesce("screensViewed", [id \in ScreenIds |-> 0]),
               lastFocus |-> Coalesce("lastFocus", Null),
               personaHints |-> Coalesce("personaHints", <<>>),
               voiceEnabled |-> IF Usable("voiceEnabled") THEN stored.val.voiceEnabled
                                ELSE FALSE,
               uiLanguage |-> IF Usable("uiLanguage") /\ stored.val.uiLanguage = "de"
                              THEN "de" ELSE "en",
               showLanguagePicker |-> IF Usable("showLanguagePicker")
                                      THEN stored.val.showLanguagePicker ELSE FALSE],
      odd |-> stored.odd \cap UncheckedFields]

\* variant: a stored session is read back without counting the visit
loadSessionNotCounting(store, t) ==
  LET fresh == [ctx |-> freshSession(t), odd |-> {}]
      session == IF ~store.canRead \/ store.blob.kind # "object" THEN fresh
                 ELSE [normalized(store.blob, t) EXCEPT !.ctx.visits = @ - 1]
  IN [session |-> session, store |-> saveSession(store, session)]

\* the session returned and the store after the call
loadSession(store, t) ==
  LET fresh == [ctx |-> freshSession(t), odd |-> {}]
      session == IF ~store.canRead THEN fresh
                 ELSE IF store.blob.kind = "absent" THEN fresh
                 ELSE IF store.blob.kind \in {"unparsable", "null"} THEN fresh
                 ELSE normalized(store.blob, t)
  IN [session |-> session, store |-> saveSession(store, session)]

(***************************************************************************)
(* State. app: the React state and refs of App. voice: the fields of the   *)
(* RealtimeVoiceClient. net: promises in flight, armed timers and the      *)
(* traffic of the data channel. env: build flag, clock and the counters    *)
(* that bound a run. obs: what the last step did (observation only).       *)
(***************************************************************************)
VARIABLES app, voice, net, env, obs

vars == <<app, voice, net, env, obs>>

NoLoop == [kind |-> "none"]
Loop(ids, index) == [kind |-> "timeline", ids |-> ids, index |-> index]

NoPc == 0

\* The world a handler runs in: handlers are operators from world to world.
World == [app |-> app, voice |-> voice, net |-> net, env |-> env, obs |-> obs]

(***************************************************************************)
(* RealtimeVoiceClient.                                                    *)
(***************************************************************************)
\* setStatus: this.status = s; onStatus (= setVoiceStatus of App)
setStatus(w, s) == [w EXCEPT !.voice.status = s, !.app.voiceStatus = s]

isConnected(w) == w.voice.status = "connected" /\ w.voice.pc # NoPc

isConnecting(w) == w.voice.status = "connecting"

\* sendEvent: written to the channel only if it exists and is open
\* (net.dropped keeps what was handed over while the channel was not open)
sendEvent(w, evt) ==
  IF w.voice.dc # "open" THEN [w EXCEPT !.net.dropped = Append(@, evt)]
  ELSE [w EXCEPT !.obs.delivered = Append(@, evt)]

cancelResponse(w) == sendEvent(w, "response.cancel")

\* a variant of disconnect that does not stop the microphone stream
disconnectKeepsMic(w) ==
  setStatus([w EXCEPT !.voice.dc = "none", !.voice.pc = NoPc,
                      !.voice.remoteSet = FALSE, !.voice.audioEl = FALSE,
                      !.net.dropped = <<>>, !.obs.disc = @ + 1],
            "idle")

disconnect(w) ==
  setStatus([w EXCEPT !.voice.dc = "none", !.voice.pc = NoPc,
                      !.voice.remoteSet = FALSE,
                      !.voice.micStream = FALSE, !.voice.audioEl = FALSE,
                      !.net.dropped = <<>>, !.net.silenced = FALSE,
                      !.obs.disc = @ + 1],
            "idle")

(***************************************************************************)
(* App: voice output helpers.                                              *)
(***************************************************************************)
\* a variant of cancelAndClear that leaves the speaking flag to the remote side
cancelOnly(w) ==
  LET w1 == cancelResponse(w) IN
  [w1 EXCEPT !.obs.cancelled = TRUE,
             !.obs.cancelFlag = @ \/ w1.app.assistantSpeaking]

\* a response-cancel request followed by the clearing of the speaking flag;
\* obs.cancelFlag records the flag right after the request
\* (net.silenced records that the request reached the service while the
\* flag was set and that no response was requested or created since; the
\* code keeps no such mark)
cancelAndClear(w) ==
  LET w1 == [cancelResponse(w) EXCEPT
               !.app.assistantSpeaking = FALSE,
               !.net.silenced = @ \/ (w.voice.dc = "open" /\ w.app.assistantSpeaking)] IN
  [w1 EXCEPT !.obs.cancelled = TRUE,
             !.obs.cancelFlag = @ \/ w1.app.assistantSpeaking]

speakFinalNarration(w, text) ==
  IF w.app.mode # "voice" THEN w
  ELSE IF ~isConnected(w) THEN w
  ELSE LET w1 == cancelAndClear(w)
           w2 == sendEvent(w1, "response.create")
       IN [w2 EXCEPT !.app.assistantSpeaking = TRUE, !.obs.spoken = text,
                     !.net.silenced = FALSE]

cancelVoiceOutputIfNeeded(w) ==
  IF w.app.mode # "voice" THEN w
  ELSE IF ~isConnected(w) THEN w
  ELSE IF w.app.assistantSpeaking THEN cancelAndClear(w)
  ELSE w

stopVoice(w) ==
  [disconnect([w EXCEPT !.app.voiceError = Null])
     EXCEPT !.app.assistantSpeaking = FALSE]

(***************************************************************************)
(* React state setters. A setter that installs a new object marks the      *)
(* dependencies of the loop effect dirty; React bails out of a setter that *)
(* installs the value already there (Object.is).                           *)
(***************************************************************************)
setLoopMode(w, v) ==
  IF v = NoLoop /\ w.app.loopMode = NoLoop THEN w
  ELSE [w EXCEPT !.app.loopMode = v, !.net.depsDirty = TRUE]

setHistory(w, h) ==
  IF h = w.app.history THEN w
  ELSE [w EXCEPT !.app.history = h, !.net.depsDirty = TRUE]

\* every session transform builds a new object and writes it through
setSession(w, ctx) ==
  [w EXCEPT !.app.session = ctx, !.net.stored = ctx, !.net.depsDirty = TRUE]

(***************************************************************************)
(* Requests to the narration service (callAvatar) and to the compiler      *)
(* service (callBrain): what was sent is kept with the pending promise.    *)
(***************************************************************************)
\* a promise in flight is named by the least number no other one carries
FreshId(w) ==
  LET used == {c.n : c \in w.net.cmds} \cup {c.n : c \in w.net.brains}
                \cup {r.n : r \in w.net.loopReqs}
  IN Min({i \in 1..(Cardinality(used) + 1) : i \notin used})

AvatarRequest(text, screen, history) ==
  [text |-> text, currentScreen |-> screen, history |-> history]

NoRequest == AvatarRequest("", [screenId |-> "", layout |-> "", widgets |-> <<>>], <<>>)

timelineOf(screen) ==
  LET idx == {i \in 1..Len(screen.widgets) : screen.widgets[i].type = "timeline"} IN
  IF idx = {} THEN <<>> ELSE <<screen.widgets[Min(idx)]>>

entryIds(widget) == [i \in 1..Len(widget.entries) |-> widget.entries[i].id]

(***************************************************************************)
(* The loop effect of App.                                                 *)
(***************************************************************************)
\* a variant of the cleanup that forgets clearTimeout(handle)
loopCleanupKeepsTimer(w) ==
  [w EXCEPT !.net.loopReqs = {[r EXCEPT !.cancelled = TRUE] : r \in @}]

\* the cleanup of the previous run: cancelled = true; clearTimeout(handle)
loopCleanup(w) ==
  [w EXCEPT !.net.timers = {},
            !.net.loopReqs = {[r EXCEPT !.cancelled = TRUE] : r \in @}]

loopBody(w) ==
  LET lm == w.app.loopMode IN
  IF lm.kind # "timeline" THEN w
  ELSE IF Len(lm.ids) = 0 \/ lm.index >= Len(lm.ids) THEN setLoopMode(w, NoLoop)
  ELSE LET currentId == lm.ids[lm.index + 1]
           cur == Last(w.app.history)
           tl == timelineOf(cur)
           found == tl # <<>> /\ SeqHas(entryIds(tl[1]), currentId)
           n == FreshId(w)
       IN [w EXCEPT !.app.focusTarget = currentId,
                    !.app.avatarThinking = TRUE,
                    !.obs.requests = @ + 1,
                    !.obs.loopAsked = currentId,
                    !.net.loopReqs = @ \cup
                       {[n |-> n, focus |-> currentId, cancelled |-> FALSE]},
                    !.obs.asked = AvatarRequest(
                       IF found THEN "Explain the CV timeline entry titled"
                       ELSE "Explain the CV timeline entry with id", cur, w.app.history),
                    !.net.timers = @ \cup {[ids |-> lm.ids, index |-> lm.index]}]

loopEffect(w) == CHOOSE r \in {loopBody(x) : x \in {loopCleanup(w)}} : TRUE

(***************************************************************************)
(* One render and its effects, in the order App declares them: the mode    *)
(* effect (stopVoice when the mode is not voice), the markScreen effect,   *)
(* the loop effect. prevMode and prevId are the previous render's values.  *)
(***************************************************************************)
effectPass(prevMode, prevId, w) ==
  LET dirty == w.net.depsDirty
      w0 == [w EXCEPT !.net.depsDirty = FALSE]
      w1 == IF w0.app.mode # prevMode /\ w0.app.mode # "voice" THEN stopVoice(w0) ELSE w0
      id == Last(w1.app.history).screenId
      w2 == IF id # prevId THEN setSession(w1, markScreen(w1.app.session, id, w1.env.now))
            ELSE w1
  IN IF dirty THEN CHOOSE r \in {loopEffect(x) : x \in {w2}} : TRUE ELSE w2

RECURSIVE renderAll(_, _, _, _)
renderAll(prevMode, prevId, w, fuel) ==
  IF fuel = 0 THEN w
  ELSE IF ~w.net.depsDirty /\ w.app.mode = prevMode
          /\ Last(w.app.history).screenId = prevId THEN w
  ELSE CHOOSE r \in {renderAll(w.app.mode, Last(w.app.history).screenId, x, fuel - 1) :
                      x \in {effectPass(prevMode, prevId, w)}} : TRUE

ReactFields ==
  {"history", "systemPrompt", "avatarNarration", "avatarThinking", "focusTarget",
   "loopMode", "mode", "hasActivatedUI", "showChat", "session", "voiceStatus",
   "voiceError", "mounted"}

\* state updates on an unmounted component are dropped; refs keep working
frozen(w) ==
  [w EXCEPT !.app = [f \in DOMAIN app |-> IF f \in ReactFields THEN app[f] ELSE w.app[f]],
            !.net.stored = net.stored,
            !.net.depsDirty = FALSE]

settle(w) ==
  IF app.mounted
  THEN renderAll(app.mode, Last(app.history).screenId, w, 4)
  ELSE frozen(w)

\* (the handler's result and the settled world are each computed once)
Commit(w) ==
  \E r \in {settle(x) : x \in {w}} :
  /\ app' = r.app
  /\ voice' = r.voice
  /\ net' = r.net
  /\ env' = r.env
  /\ obs' = r.obs

(***************************************************************************)
(* Command dispatcher: App.handleCommand up to its first await. The closure*)
(* values (history, currentScreen, session) are those of the last render,  *)
(* i.e. of the state the step starts in.                                   *)
(***************************************************************************)
\* a user: what they type, what they say, how many commands they give and
\* how many they leave pending at once
TypingUser ==
  [typed |-> TypedTexts, heard |-> {}, commands |-> MaxTyped, pending |-> MaxPending]
LoopUser ==
  [typed |-> LoopTexts, heard |-> {}, commands |-> MaxLoopTyped,
   pending |-> MaxLoopPending]
VoiceUser ==
  [typed |-> {}, heard |-> VoiceTexts, commands |-> MaxHeard, pending |-> MaxPending]
\* a user who types and waits for each answer before the next command
PatientUser ==
  [typed |-> TypedTexts, heard |-> {}, commands |-> MaxTyped,
   pending |-> MaxLoopPending]
\* a user who opens the CV, starts the loop and then uses the persona control
PanelUser ==
  [typed |-> {"cv", "loop the timeline"}, heard |-> {}, commands |-> MaxPanelTyped,
   pending |-> MaxLoopPending]
\* a user who opens the CV and starts the loop without waiting for the
\* narration of the CV
EagerUser ==
  [typed |-> {"cv", "loop the timeline"}, heard |-> {}, commands |-> MaxPanelTyped,
   pending |-> MaxPending]
\* a user who asks for a change of the screen and goes on to the timeline
\* loop without waiting for the compiler
OverlapUser ==
  [typed |-> {"add tag Go", "cv", "loop the timeline"}, heard |-> {},
   commands |-> MaxOverlapTyped, pending |-> MaxPending]
\* a user who keeps asking for something else, and for the CV
RotateUser ==
  [typed |-> RotateTexts, heard |-> {}, commands |-> MaxRotateTyped,
   pending |-> MaxLoopPending]
\* a user who sets the language by command and with the picker
LanguageUser ==
  [typed |-> LanguageTexts, heard |-> {}, commands |-> MaxLanguageTyped,
   pending |-> MaxLoopPending]
AnyUser ==
  [typed |-> TypedTexts, heard |-> VoiceTexts, commands |-> MaxTyped,
   pending |-> MaxPending]

\* a variant of isStopPhrase that compares without lower-casing
isStopPhraseCased(s) == trim(s) \in {"stop", "cancel", "halt", "be quiet", "shut up", "silence"}

isStopPhrase(s) ==
  LET t == toLowerCase(trim(s)) IN
  t = "stop" \/ t = "cancel" \/ t = "halt" \/ t = "be quiet" \/ t = "shut up"
    \/ t = "silence"

\* The narration service's set of focus targets it lets through: the screen
\* id, and the ids of the timeline entries and projects of the request's
\* current screen
collectAllowedFocusTargets(currentScreen) ==
  LET Ids(w) == IF w.type = "timeline" THEN {w.entries[i].id : i \in DOMAIN w.entries}
                ELSE IF w.type = "project_list"
                  THEN {w.projects[i].id : i \in DOMAIN w.projects}
                ELSE {}
      ids == {currentScreen.screenId}
               \cup UNION {Ids(currentScreen.widgets[i]) : i \in DOMAIN currentScreen.widgets}
  IN {trim(v) : v \in {x \in ids : trim(x) # ""}}

\* the service's answer as its handler sends it: a focusTarget outside the
\* allowed ones becomes null
enforceFocusTarget(out, allowed) ==
  IF out.ok /\ out.focusTarget # Null /\ trim(out.focusTarget) \notin allowed
  THEN [out EXCEPT !.focusTarget = Null]
  ELSE out

\* await callAvatar(text, screen, hist, ...): the promise stays pending in
\* net.cmds; cmd is the ordinal of the command that asked
awaitAvatar(w, src, text, screen, hist, setsFocus) ==
  LET n == FreshId(w) IN
  [w EXCEPT !.obs.requests = @ + 1,
            !.net.cmds = @ \cup
               {[n |-> n, src |-> src, setsFocus |-> setsFocus, cmd |-> w.obs.cmd,
                 allowed |-> collectAllowedFocusTargets(screen),
                 stopped |-> FALSE]},
            !.obs.asked = AvatarRequest(text, screen, hist),
            !.obs.narrationAsked = TRUE,
            !.obs.histAtAsk = w.app.history,
            !.obs.cmdAsked = AvatarRequest(text, screen, hist)]

\* await callBrain(trimmed, current, history): pending in net.brains together
\* with the closure the continuation will read
awaitBrain(w, src, text) ==
  LET n == FreshId(w) IN
  [w EXCEPT !.obs.requests = @ + 1,
            !.net.brains = @ \cup
               {[n |-> n, src |-> src, text |-> text, cmd |-> w.obs.cmd,
                 closure |-> [history |-> app.history, current |-> Last(app.history)]]},
            !.obs.asked = AvatarRequest(text, Last(app.history), app.history)]

\* a handler that returns a message at once: the voice caller speaks it
returnNow(w, src, msg) ==
  IF src = "voice" /\ trim(msg) # "" THEN speakFinalNarration(w, trim(msg)) ELSE w

\* (stopped, on a pending narration request, records that a stop phrase was
\* processed while the request was in flight; the code keeps no such mark)
stopBranch(w) ==
  LET w1 == setLoopMode(w, NoLoop)
      w2 == [w1 EXCEPT !.app.avatarThinking = FALSE, !.app.avatarNarration = Null,
                       !.app.systemPrompt = "Stopped.", !.obs.stopped = TRUE,
                       !.net.cmds = {[c EXCEPT !.stopped = TRUE] : c \in @}]
  IN IF w2.app.mode = "voice" /\ isConnected(w2) THEN cancelAndClear(w2) ELSE w2

\* variant: setting the language leaves the picker as it is
languageKeepsPicker(w, src, intent) ==
  LET t == w.env.now IN
  IF intent.type = "SHOW_LANGUAGE_SELECTION"
  THEN LET msg == IF app.session.uiLanguage = "de" THEN "Sprachauswahl geöffnet. Wähle Deutsch oder English."
                  ELSE "Language selection opened. Choose English or Deutsch."
           w1 == setSession(w, showLanguageSelection(w.app.session, TRUE, t))
       IN returnNow([w1 EXCEPT !.app.systemPrompt = msg, !.app.avatarNarration = msg],
                    src, msg)
  ELSE LET lang == IF intent.type = "SET_LANGUAGE_EN" THEN "en" ELSE "de"
           msg == IF lang = "en" THEN "Language set to English."
                  ELSE "Sprache auf Deutsch eingestellt."
           w1 == setSession(w, setUILanguage(w.app.session, lang, t))
       IN returnNow([w1 EXCEPT !.app.systemPrompt = msg, !.app.avatarNarration = msg],
                    src, msg)

languageBranch(w, src, intent) ==
  LET t == w.env.now IN
  IF intent.type = "SHOW_LANGUAGE_SELECTION"
  THEN LET msg == IF app.session.uiLanguage = "de" THEN "Sprachauswahl geöffnet. Wähle Deutsch oder English."
                  ELSE "Language selection opened. Choose English or Deutsch."
           w1 == setSession(w, showLanguageSelection(w.app.session, TRUE, t))
       IN returnNow([w1 EXCEPT !.app.systemPrompt = msg, !.app.avatarNarration = msg],
                    src, msg)
  ELSE LET lang == IF intent.type = "SET_LANGUAGE_EN" THEN "en" ELSE "de"
           msg == IF lang = "en" THEN "Language set to English."
                  ELSE "Sprache auf Deutsch eingestellt."
           w1 == setSession(w, setUILanguage(
                                 showLanguageSelection(w.app.session, FALSE, t), lang, t))
       IN returnNow([w1 EXCEPT !.app.systemPrompt = msg, !.app.avatarNarration = msg],
                    src, msg)

\* a variant of goBackBranch that slices from the front (history.slice(1))
goBackDropsFirst(w, src, trimmed) ==
  LET history == app.history
      current == Last(history)
      prevHistory == IF Len(history) > 1 THEN Tail(history) ELSE history
      w1 == setHistory(w, prevHistory)
      w2 == [w1 EXCEPT !.app.systemPrompt = "Went back to the previous view.",
                       !.app.focusTarget = Null, !.app.avatarThinking = TRUE]
  IN awaitAvatar(w2, src, trimmed, current, prevHistory, TRUE)

goBackBranch(w, src, trimmed) ==
  LET history == app.history
      current == Last(history)
      prevHistory == IF Len(history) > 1 THEN SubSeq(history, 1, Len(history) - 1)
                     ELSE history
      w1 == setHistory(w, prevHistory)
      w2 == [w1 EXCEPT !.app.systemPrompt = "Went back to the previous view.",
                       !.app.focusTarget = Null, !.app.avatarThinking = TRUE]
  IN awaitAvatar(w2, src, trimmed, current, prevHistory, TRUE)

\* variant: the narration is asked for before the CV screen is pushed
showCvAsksFirst(w, src, trimmed) ==
  LET newHistory == Append(app.history, cvScreen)
      w1 == [w EXCEPT !.app.systemPrompt = "Showing CV overview. You can ask for details.",
                      !.app.focusTarget = Null, !.app.avatarThinking = TRUE]
  IN setHistory(awaitAvatar(w1, src, trimmed, cvScreen, newHistory, TRUE), newHistory)

showCvBranch(w, src, trimmed) ==
  LET newHistory == Append(app.history, cvScreen)
      w1 == setHistory(w, newHistory)
      w2 == [w1 EXCEPT !.app.systemPrompt = "Showing CV overview. You can ask for details.",
                       !.app.focusTarget = Null, !.app.avatarThinking = TRUE]
  IN awaitAvatar(w2, src, trimmed, cvScreen, newHistory, TRUE)

\* showProjectsBranch once decideFromText has returned
showProjects(w, src, trimmed, result) ==
  LET history == app.history
      pushed == result.kind = "push"
      nextScreen == IF pushed THEN result.screen ELSE Last(history)
      newHistory == IF pushed THEN Append(history, result.screen) ELSE history
      w1 == [w EXCEPT !.app.avatarThinking = TRUE]
      w2 == IF pushed THEN setHistory(w1, newHistory) ELSE w1
      w3 == [w2 EXCEPT !.app.systemPrompt = result.systemPrompt,
                       !.app.focusTarget = Null]
  IN awaitAvatar(w3, src, trimmed, nextScreen, newHistory, TRUE)

\* variant: the screen the local rules chose is not pushed
showProjectsNotPushed(w, src, trimmed) ==
  showProjects(w, src, trimmed, Noop("Showing projects."))

showProjectsBranch(w, src, trimmed) ==
  showProjects(w, src, trimmed, decideFromText(trimmed, app.history, w.env.now))

\* variant: the loop starts at the second entry
loopTimelineFromSecond(w, src, trimmed) ==
  LET history == app.history
      current == Last(history)
      tl == timelineOf(current)
  IN IF tl = <<>> \/ Len(tl[1].entries) = 0
     THEN awaitAvatar(
            [w EXCEPT !.app.systemPrompt = "There is no timeline on this view to loop through.",
                      !.app.focusTarget = Null, !.app.avatarThinking = TRUE],
            src, trimmed, current, history, FALSE)
     ELSE awaitAvatar(
            [setLoopMode(w, Loop(entryIds(tl[1]), 1)) EXCEPT !.app.avatarThinking = TRUE],
            src, "The user asked to go through the CV timeline entries one by one.",
            current, history, FALSE)

loopTimelineBranch(w, src, trimmed) ==
  LET history == app.history
      current == Last(history)
      tl == timelineOf(current)
  IN IF tl = <<>> \/ Len(tl[1].entries) = 0
     THEN awaitAvatar(
            [w EXCEPT !.app.systemPrompt = "There is no timeline on this view to loop through.",
                      !.app.focusTarget = Null, !.app.avatarThinking = TRUE],
            src, trimmed, current, history, FALSE)
     ELSE awaitAvatar(
            [setLoopMode(w, Loop(entryIds(tl[1]), 0)) EXCEPT !.app.avatarThinking = TRUE],
            src, "The user asked to go through the CV timeline entries one by one.",
            current, history, FALSE)

\* the local rule path once decideFromText has returned: the push through
\* setHistory(prev => [...prev, screen]), then the narration request with the
\* closure's history
applyLocal(w, src, trimmed, closure, result) ==
  LET pushed == result.kind = "push"
      screenAfterCompiler == IF pushed THEN result.screen ELSE closure.current
      w1 == IF pushed THEN setHistory(w, Append(w.app.history, result.screen)) ELSE w
      w2 == [w1 EXCEPT !.app.systemPrompt = result.systemPrompt]
  IN awaitAvatar(w2, src, trimmed, screenAfterCompiler, closure.history, TRUE)

\* the local rule path of the default branch: decideFromText on the closure's
\* history
localRules(w, src, trimmed, closure) ==
  applyLocal(w, src, trimmed, closure,
             decideFromText(trimmed, closure.history, w.env.now))

defaultBranch(w, src, trimmed) ==
  LET w1 == [w EXCEPT !.app.avatarThinking = TRUE] IN
  IF ~w.env.isProd
  THEN localRules(w1, src, trimmed,
                  [history |-> app.history, current |-> Last(app.history)])
  ELSE awaitBrain(w1, src, trimmed)

\* the switch of handleCommand on the parsed intent
dispatch(w3, src, trimmed, intent) ==
  LET w4 == [w3 EXCEPT !.obs.intent = intent.type] IN
  CASE intent.type \in {"SHOW_LANGUAGE_SELECTION", "SET_LANGUAGE_EN",
                        "SET_LANGUAGE_DE"} -> languageBranch(w4, src, intent)
    [] intent.type = "GO_BACK" -> goBackBranch(w4, src, trimmed)
    [] intent.type = "SHOW_CV" -> showCvBranch(w4, src, trimmed)
    [] intent.type \in {"SHOW_PROJECTS", "SHOW_ANY_PROJECTS"} ->
         showProjectsBranch(w4, src, trimmed)
    [] intent.type = "LOOP_TIMELINE" -> loopTimelineBranch(w4, src, trimmed)
    [] OTHER -> defaultBranch(w4, src, trimmed)

handleCommand(w, text, src) ==
  LET trimmed == trim(text) IN
  IF trimmed = "" THEN w
  ELSE
    LET w1 == [w EXCEPT !.app.hasActivatedUI = TRUE,
                        !.env.cmdCount = @ + 1,
                        !.obs.handled = TRUE, !.obs.text = text,
                        !.obs.cmd = w.env.cmdCount + 1]
        w2 == cancelVoiceOutputIfNeeded(w1)
    IN IF isStopPhrase(trimmed) THEN stopBranch(w2)
       ELSE
         dispatch(setLoopMode(w2, NoLoop), src, trimmed, intentOf(trimmed))

(***************************************************************************)
(* Continuations of handleCommand after its awaits.                        *)
(***************************************************************************)
\* what callAvatar resolves to: null, or the normalised response
NoAvatar == [ok |-> FALSE, narration |-> "", focusTarget |-> Null]
AvatarOutcomes ==
  {NoAvatar,
   [ok |-> TRUE, narration |-> "Here it is.", focusTarget |-> Null],
   [ok |-> TRUE, narration |-> " Look at this. ", focusTarget |-> "bth-web"]}

\* a variant of afterAvatar without the finally: a failed call leaves the
\* thinking flag set
afterAvatarKeepsThinking(w, c, out) ==
  LET has == out.ok /\ out.narration # ""
      w0 == [w EXCEPT !.obs.answered = c.cmd, !.obs.cmd = c.cmd,
                      !.obs.avatarFailed = ~out.ok, !.obs.narrated = has,
                      !.obs.focused = c.setsFocus /\ out.ok /\ out.focusTarget # Null]
      w1 == IF has THEN [w0 EXCEPT !.app.avatarNarration = out.narration] ELSE w0
      w2 == IF c.setsFocus /\ out.ok /\ out.focusTarget # Null
            THEN [w1 EXCEPT !.app.focusTarget = out.focusTarget] ELSE w1
      w3 == [w2 EXCEPT !.app.avatarThinking = ~out.ok, !.net.cmds = @ \ {c}]
  IN IF has THEN returnNow(w3, c.src, out.narration) ELSE w3

\* if (avatar?.narration) {...}; if (avatar?.focusTarget) ...; finally
\* setAvatarThinking(false); the voice caller speaks the returned narration
afterAvatar(w, c, out) ==
  LET has == out.ok /\ out.narration # ""
      w0 == [w EXCEPT !.obs.answered = c.cmd, !.obs.cmd = c.cmd,
                      !.obs.avatarFailed = ~out.ok, !.obs.narrated = has,
                      !.obs.focused = c.setsFocus /\ out.ok /\ out.focusTarget # Null]
      w1 == IF has THEN [w0 EXCEPT !.app.avatarNarration = out.narration] ELSE w0
      w2 == IF c.setsFocus /\ out.ok /\ out.focusTarget # Null
            THEN [w1 EXCEPT !.app.focusTarget = out.focusTarget] ELSE w1
      w3 == [w2 EXCEPT !.app.avatarThinking = FALSE, !.net.cmds = @ \ {c}]
  IN IF has THEN returnNow(w3, c.src, out.narration) ELSE w3

\* what callBrain resolves to: null (network error, non-2xx), or the parsed
\* body as it came; hasMutations tells whether the body carries a mutations
\* array
NoBrain == [ok |-> FALSE, systemPrompt |-> "", hasMutations |-> FALSE, mutations |-> <<>>]
NoMutationsArray ==
  [ok |-> TRUE, systemPrompt |-> "brain says", hasMutations |-> FALSE, mutations |-> <<>>]
BrainOutcomes ==
  {NoBrain,
   NoMutationsArray,
   [ok |-> TRUE, systemPrompt |-> "brain says", hasMutations |-> TRUE,
    mutations |-> <<>>],
   [ok |-> TRUE, systemPrompt |-> "brain says", hasMutations |-> TRUE,
    mutations |-> <<[kind |-> "ADD_TAG", tag |-> "Go"]>>],
   [ok |-> TRUE, systemPrompt |-> "", hasMutations |-> TRUE,
    mutations |-> <<[kind |-> "EXPLODE"]>>]}

\* the answer of the compiler applied: mutations = brain.mutations ?? [],
\* folded over the closure's current screen, pushed if a new screen came out
applyBrain(w, c, brain) ==
  LET mutations == IF brain.hasMutations THEN brain.mutations ELSE <<>>
      current == c.closure.current
      nextScreen == applyAll(current, mutations)
      changed == \E i \in 1..Len(mutations) : ~returnsSameRef(mutations[i])
      w1 == IF changed THEN setHistory(w, Append(w.app.history, nextScreen)) ELSE w
      w2 == IF brain.systemPrompt # ""
            THEN [w1 EXCEPT !.app.systemPrompt = brain.systemPrompt] ELSE w1
  IN awaitAvatar([w2 EXCEPT !.obs.compiled = TRUE, !.obs.brainFrom = current,
                            !.obs.brainTo = nextScreen],
                 c.src, c.text, nextScreen, c.closure.history, TRUE)

brainBody(brain) ==
  IF ~brain.ok THEN "failed"
  ELSE IF brain.hasMutations THEN "ok" ELSE "no_mutations"

\* a variant of afterBrain that takes a failed call for an answer without
\* mutations
afterBrainNoFallback(w, c, brain) ==
  applyBrain([w EXCEPT !.net.brains = @ \ {c}, !.obs.brainBody = brainBody(brain),
                       !.obs.cmd = c.cmd],
             c, brain)

\* if (!brain) {local rules} else {apply the answer}
afterBrain(w, c, brain) ==
  LET w0 == [w EXCEPT !.net.brains = @ \ {c}, !.obs.brainBody = brainBody(brain),
                      !.obs.cmd = c.cmd] IN
  IF ~brain.ok
  THEN localRules([w0 EXCEPT !.obs.fellBack = TRUE], c.src, c.text, c.closure)
  ELSE applyBrain(w0, c, brain)

\* the narration of a loop step: dropped when the effect run was cleaned up
afterLoopAvatar(w, r, out) ==
  LET w0 == [w EXCEPT !.net.loopReqs = @ \ {r}, !.obs.avatarFailed = ~out.ok]
      w1 == IF ~r.cancelled /\ out.ok /\ out.narration # ""
            THEN LET w2 == [w0 EXCEPT !.app.avatarNarration = out.narration,
                                      !.obs.loopNarrated = r.focus]
                 IN IF w2.app.mode = "voice" /\ isConnected(w2)
                    THEN speakFinalNarration(w2, out.narration) ELSE w2
            ELSE w0
  IN [w1 EXCEPT !.app.avatarThinking = FALSE]

\* the 8 s timer of a loop step: setLoopMode(prev => ...)
advance(prev) ==
  IF prev.kind # "timeline" THEN prev
  ELSE IF prev.index >= Len(prev.ids) - 1 THEN NoLoop
  ELSE [prev EXCEPT !.index = @ + 1]

timerFired(w, tm) ==
  LET w0 == [w EXCEPT !.net.timers = @ \ {tm}]
      nxt == advance(w0.app.loopMode)
  IN IF nxt = w0.app.loopMode THEN w0 ELSE setLoopMode(w0, nxt)

(***************************************************************************)
(* startVoice and RealtimeVoiceClient.connect, cut at their awaits. A      *)
(* pending invocation is a record of net.starts: its stage names the await *)
(* it is suspended in and pcGen the peer connection its pending WebRTC     *)
(* operation was called on; shown is the status the panel showed when the  *)
(* invocation began.                                                       *)
(***************************************************************************)
\* the catch block of startVoice
startFailed(w, s, msg) ==
  [w EXCEPT !.app.voiceError = msg, !.app.voiceStatus = "error",
            !.net.starts = @ \ {s}]

startVoice(w) ==
  IF isConnected(w) \/ isConnecting(w) THEN w
  ELSE [w EXCEPT !.app.voiceError = Null, !.app.avatarNarration = Null,
                 !.env.startCount = @ + 1,
                 !.net.starts = @ \cup
                    {[n |-> w.env.startCount + 1, stage |-> "token",
                      lang |-> app.session.uiLanguage, pcGen |-> NoPc,
                      shown |-> app.voiceStatus]}]

greeting(lang) ==
  IF lang = "de" THEN "Hallo! Du kannst sagen: zeig den Lebenslauf."
  ELSE "Hello! You can say: show the CV."

\* connect() has returned: startVoice greets and ends
connectReturned(w, s) ==
  speakFinalNarration([w EXCEPT !.net.starts = @ \ {s}], greeting(s.lang))

\* connect(): lines 36-114, up to the await of getUserMedia
connect(w, s) ==
  IF w.voice.pc # NoPc THEN connectReturned(w, s)
  ELSE LET w1 == setStatus(w, "connecting") IN
       [w1 EXCEPT !.voice.pc = s.n, !.voice.audioEl = TRUE,
                  !.voice.dc = "connecting", !.voice.remoteSet = FALSE,
                  !.net.dropped = <<>>,
                  !.net.starts = (@ \ {s}) \cup {[s EXCEPT !.stage = "mic"]}]

\* the token fetch has settled
tokenResult(w, s, ok) ==
  LET w1 == [w EXCEPT !.obs.connectCalled = ok, !.obs.startedFrom = s.shown] IN
  IF ok THEN connect(w1, s) ELSE startFailed(w1, s, "Failed to fetch realtime token")

\* getUserMedia has settled: the stream is stored, its tracks are added to
\* this.pc and createOffer is called on it
micResult(w, s, ok) ==
  IF ~ok THEN startFailed(w, s, "NotAllowedError")
  ELSE LET w1 == [w EXCEPT !.voice.micStream = TRUE] IN
       IF w1.voice.pc = NoPc THEN startFailed(w1, s, "TypeError")
       ELSE [w1 EXCEPT !.net.starts =
               (@ \ {s}) \cup {[s EXCEPT !.stage = "offer", !.pcGen = w1.voice.pc]}]

\* createOffer / setLocalDescription have settled: the SDP exchange starts
offerResult(w, s, ok) ==
  IF ~ok \/ w.voice.pc = NoPc THEN startFailed(w, s, "offer failed")
  ELSE [w EXCEPT !.net.starts = (@ \ {s}) \cup {[s EXCEPT !.stage = "sdp"]}]

\* the SDP exchange has answered
sdpResult(w, s, ok) ==
  IF ~ok THEN startFailed(setStatus(w, "error"), s, "Realtime SDP exchange failed")
  ELSE IF w.voice.pc = NoPc THEN startFailed(w, s, "TypeError")
  ELSE [w EXCEPT !.net.starts =
          (@ \ {s}) \cup {[s EXCEPT !.stage = "remote", !.pcGen = w.voice.pc]}]

\* setRemoteDescription has settled
remoteResult(w, s, ok) ==
  IF ~ok THEN startFailed(w, s, "InvalidStateError")
  ELSE connectReturned(
         setStatus([w EXCEPT !.voice.remoteSet = TRUE], "connected"), s)

\* a WebRTC operation pending on a connection that was closed meanwhile
\* either rejects or never settles
abandoned(w, s) == [w EXCEPT !.net.starts = @ \ {s}]

(***************************************************************************)
(* onEvent: a message of the data channel.                                 *)
(***************************************************************************)
DebounceMs == 900

UserTranscript == "conversation.item.input_audio_transcription.completed"

SpeakingOn == {"response.created", "response.output_audio.delta",
               "response.output_audio_transcript.delta"}
SpeakingOff == {"response.completed", "response.done", "response.cancelled",
                "response.failed"}

isFinalUserTranscriptEvent(evtType) ==
  \/ evtType = "conversation.item.input_audio_transcription.completed"
  \/ evtType = "input_audio_transcription.completed"
  \/ endsWith(evtType, ".input_audio_transcription.completed")

\* a variant of canTrigger whose window is closed on the left (>= 900)
canTriggerAtLeast(w, now) ==
  w.app.mode = "voice" /\ now - w.app.lastVoiceCommandAt >= DebounceMs

\* (handleCommandRef is set by the first render's effects)
canTrigger(w, now) ==
  w.app.mode = "voice" /\ now - w.app.lastVoiceCommandAt > DebounceMs

\* null is "": the first non-blank of evt.transcript, trimmed
extractFinalUserTranscript(evt) == trim(evt.transcript)

onEvent(w, evt) ==
  LET evtType == evt.type
      w1 == IF evtType \in SpeakingOn
            THEN [w EXCEPT !.app.assistantSpeaking = TRUE,
                           !.net.silenced = @ /\ evtType # "response.created"]
            ELSE w
      w2 == IF evtType \in SpeakingOff \/ startsWith(evtType, "error")
            THEN [w1 EXCEPT !.app.assistantSpeaking = FALSE] ELSE w1
      w3 == IF evtType = "response.output_audio_transcript.done"
            THEN [w2 EXCEPT !.app.avatarNarration = evt.transcript] ELSE w2
      now == w.env.now
      final == isFinalUserTranscriptEvent(evtType)
      candidateText == extractFinalUserTranscript(evt)
      w4 == [w3 EXCEPT !.obs.final = final /\ candidateText # "",
                       !.obs.elapsed = now - w3.app.lastVoiceCommandAt,
                       !.obs.lastBefore = w3.app.lastVoiceCommandAt]
  IN IF ~canTrigger(w3, now) \/ ~final THEN w4
     ELSE IF candidateText = "" THEN w4
     ELSE handleCommand(
            [w4 EXCEPT !.app.lastVoiceCommandAt = now,
                       !.app.systemPrompt = "Heard: " \o candidateText,
                       !.obs.forwarded = TRUE],
            candidateText, "voice")

(***************************************************************************)
(* Initial state: App mounted, first render and its effects done.          *)
(***************************************************************************)
StartNow == 2 * DebounceMs
TickMs == DebounceMs \div 2

Obs0 ==
  [handled |-> FALSE, text |-> "", stopped |-> FALSE, intent |-> "",
   was |-> [loop |-> NoLoop, status |-> "idle", voiceStatus |-> "idle",
            pc |-> FALSE, speaking |-> FALSE],
   cancelled |-> FALSE, cancelFlag |-> FALSE, delivered |-> <<>>, disc |-> 0,
   narrationAsked |-> FALSE, histAtAsk |-> <<>>, cmdAsked |-> NoRequest,
   compiled |-> FALSE, brainFrom |-> homeScreen, brainTo |-> homeScreen,
   loopNarrated |-> Null, loopAsked |-> Null, spoken |-> Null, requests |-> 0, asked |-> NoRequest,
   connectCalled |-> FALSE, startedFrom |-> "",
   fellBack |-> FALSE, brainBody |-> "",
   cmd |-> 0, answered |-> 0, avatarFailed |-> FALSE, narrated |-> FALSE,
   focused |-> FALSE,
   final |-> FALSE, elapsed |-> 0, lastBefore |-> 0, forwarded |-> FALSE]

InitFor(prod, user) ==
  /\ app = [history |-> <<homeScreen>>,
            systemPrompt |-> "You are not browsing pages.",
            avatarNarration |-> Null, avatarThinking |-> FALSE,
            focusTarget |-> Null, loopMode |-> NoLoop, mode |-> "chooser",
            hasActivatedUI |-> FALSE, showChat |-> FALSE,
            session |-> markScreen(freshSession(StartNow), "home", StartNow),
            voiceStatus |-> "idle", voiceError |-> Null, mounted |-> TRUE,
            assistantSpeaking |-> FALSE, lastVoiceCommandAt |-> 0]
  /\ voice = [status |-> "idle", pc |-> NoPc, dc |-> "none", remoteSet |-> FALSE,
              micStream |-> FALSE, audioEl |-> FALSE]
  /\ net = [dropped |-> <<>>, silenced |-> FALSE, depsDirty |-> FALSE, timers |-> {},
            loopReqs |-> {},
            cmds |-> {}, brains |-> {}, starts |-> {},
            stored |-> markScreen(freshSession(StartNow), "home", StartNow)]
  /\ env = [isProd |-> prod, user |-> user, now |-> StartNow, cmdCount |-> 0,
            startCount |-> 0, clickCount |-> 0, evtCount |-> 0, ticks |-> 0]
  /\ obs = Obs0

Init == \E prod \in BOOLEAN : InitFor(prod, AnyUser)

\* the world a step starts in, with a fresh observation record
Begin ==
  [World EXCEPT !.obs = [Obs0 EXCEPT !.was =
     [loop |-> app.loopMode, status |-> voice.status,
      voiceStatus |-> app.voiceStatus, pc |-> voice.pc # NoPc,
      speaking |-> app.assistantSpeaking]]]

Click == [Begin EXCEPT !.env.clickCount = @ + 1]

CanClick == app.mounted /\ env.clickCount < MaxClicks

(***************************************************************************)
(* The user's actions. Guards are the conditions under which the control   *)
(* is rendered.                                                            *)
(***************************************************************************)
Submit(t) ==
  /\ app.mounted /\ app.showChat /\ app.mode = "text"
  /\ t \in env.user.typed
  /\ env.cmdCount < env.user.commands
  /\ Cardinality(net.cmds) + Cardinality(net.brains) < env.user.pending
  /\ Commit(handleCommand(Begin, t, "text"))

handleSelectText ==
  /\ app.mounted /\ ~app.hasActivatedUI
  /\ Commit([Begin EXCEPT !.app.mode = "text",
                                              !.app.showChat = TRUE])

handleSelectVoice ==
  /\ app.mounted /\ ~app.hasActivatedUI /\ env.startCount < MaxStarts
  /\ Commit(startVoice([Begin EXCEPT
                          !.app.mode = "voice", !.app.showChat = FALSE,
                          !.app.hasActivatedUI = TRUE]))

SwitchToTyping ==
  /\ CanClick /\ app.hasActivatedUI /\ app.mode = "voice"
  /\ Commit(stopVoice([Click EXCEPT !.app.mode = "text",
                                                      !.app.showChat = TRUE]))

SwitchToTalking ==
  /\ CanClick /\ app.hasActivatedUI /\ app.mode # "voice"
  /\ env.startCount < MaxStarts
  /\ Commit(startVoice([Click EXCEPT
                          !.app.mode = "voice", !.app.showChat = FALSE]))

StartVoiceConversation ==
  /\ CanClick /\ app.hasActivatedUI /\ app.mode = "voice"
  /\ app.voiceStatus # "connected" /\ env.startCount < MaxStarts
  /\ Commit(startVoice(Click))

StopSpeaking ==
  /\ CanClick /\ app.hasActivatedUI /\ app.mode = "voice"
  /\ app.voiceStatus = "connected"
  /\ Commit([cancelAndClear(Click) EXCEPT
               !.app.systemPrompt = "Stopped voice output."])

TalkToTheInterface ==
  /\ CanClick /\ app.hasActivatedUI /\ app.mode = "text" /\ ~app.showChat
  /\ Commit([Click EXCEPT !.app.showChat = TRUE])

CloseChat ==
  /\ CanClick /\ app.showChat /\ app.mode = "text"
  /\ Commit(setLoopMode([Click EXCEPT !.app.showChat = FALSE], NoLoop))

handlePersonaChange(pref) ==
  /\ CanClick /\ app.hasActivatedUI
  /\ Commit(LET w == Click IN
            setSession(w, setPersonaPreference(w.app.session, pref, w.env.now)))

PickLanguage(lang) ==
  /\ CanClick /\ app.session.showLanguagePicker
  /\ Commit(LET w == Click
                msg == IF lang = "en" THEN "Language set to English."
                       ELSE "Sprache auf Deutsch eingestellt."
                w1 == setSession(w, setUILanguage(
                        showLanguageSelection(w.app.session, FALSE, w.env.now),
                        lang, w.env.now))
            IN [w1 EXCEPT !.app.avatarNarration = msg, !.app.systemPrompt = msg])

\* unmount: the effect cleanups run; later state updates are dropped
Unmount ==
  /\ app.mounted
  /\ LET w == disconnect(loopCleanup(Begin)) IN
     /\ app' = [app EXCEPT !.mounted = FALSE]
     /\ voice' = w.voice
     /\ net' = [w.net EXCEPT !.depsDirty = FALSE]
     /\ env' = w.env
     /\ obs' = w.obs

(***************************************************************************)
(* The environment's actions: promises settle, the channel opens, the      *)
(* service sends events, timers fire, time passes.                         *)
(***************************************************************************)
TokenResult ==
  \E s \in net.starts, ok \in BOOLEAN :
    /\ s.stage = "token"
    /\ Commit(tokenResult(Begin, s, ok))

MicResult ==
  \E s \in net.starts, ok \in BOOLEAN :
    /\ s.stage = "mic"
    /\ Commit(micResult(Begin, s, ok))

OfferResult ==
  \E s \in net.starts, ok \in BOOLEAN :
    /\ s.stage = "offer" /\ s.pcGen = voice.pc
    /\ Commit(offerResult(Begin, s, ok))

SdpResult ==
  \E s \in net.starts, ok \in BOOLEAN :
    /\ s.stage = "sdp"
    /\ Commit(sdpResult(Begin, s, ok))

\* an answer cannot be applied twice to one connection
RemoteResult ==
  \E s \in net.starts, ok \in BOOLEAN :
    /\ s.stage = "remote" /\ s.pcGen = voice.pc
    /\ ok => ~voice.remoteSet
    /\ Commit(remoteResult(Begin, s, ok))

ClosedResult ==
  \E s \in net.starts, settles \in BOOLEAN :
    /\ s.stage \in {"offer", "remote"} /\ s.pcGen # voice.pc
    /\ Commit(IF settles THEN startFailed(Begin, s, "InvalidStateError")
              ELSE abandoned(Begin, s))

\* the transport is up: the data channel opens (onopen only logs)
DcOpen ==
  /\ voice.dc = "connecting" /\ voice.remoteSet
  /\ Commit([Begin EXCEPT !.voice.dc = "open"])

ServerEvents ==
  {[type |-> "response.created", transcript |-> ""],
   [type |-> "response.output_audio.delta", transcript |-> ""],
   [type |-> "response.done", transcript |-> ""],
   [type |-> "response.output_audio_transcript.done", transcript |-> "said"]}
  \cup {[type |-> UserTranscript, transcript |-> t] : t \in VoiceTexts}

RemoteEvent ==
  \E evt \in ServerEvents :
    /\ voice.dc = "open"
    /\ env.evtCount < MaxEvents
    /\ evt.type = UserTranscript =>
         evt.transcript \in env.user.heard /\ env.cmdCount < env.user.commands
    /\ Commit(onEvent([Begin EXCEPT !.env.evtCount = @ + 1], evt))

BrainResult ==
  \E c \in net.brains, out \in BrainOutcomes :
    Commit(afterBrain(Begin, c, out))

AvatarResult ==
  \E c \in net.cmds, out \in AvatarOutcomes :
    Commit(afterAvatar(Begin, c, enforceFocusTarget(out, c.allowed)))

\* (a cleaned-up run ignores what the service answered)
LoopAvatarResult ==
  \E r \in net.loopReqs :
    \E out \in (IF r.cancelled THEN {NoAvatar} ELSE AvatarOutcomes) :
      Commit(afterLoopAvatar(Begin, r, out))

TimerFire ==
  \E tm \in net.timers : Commit(timerFired(Begin, tm))

\* time is counted from the first accepted voice command on
Tick ==
  /\ env.ticks < MaxTicks
  /\ app.lastVoiceCommandAt # 0
  /\ Commit([Begin EXCEPT !.env.now = @ + TickMs, !.env.ticks = @ + 1])

\* time passes between two events
Elapse ==
  /\ env.ticks < MaxTicks
  /\ Commit([Begin EXCEPT !.env.now = @ + TickMs, !.env.ticks = @ + 1])

Submitted == \E t \in Utterances : Submit(t)

PersonaChanged ==
  \E pref \in {"balanced", "concise", "detailed"} : handlePersonaChange(pref)

LanguagePicked == \E lang \in {"en", "de"} : PickLanguage(lang)

\* the text surface: typed commands and the chat dock
NextText ==
  \/ handleSelectText
  \/ Submitted
  \/ TalkToTheInterface
  \/ CloseChat

\* the controls of the avatar panel that edit the session
NextPanel ==
  \/ PersonaChanged
  \/ LanguagePicked

\* the timeline loop: its narrations and its timer
NextLoop ==
  \/ LoopAvatarResult
  \/ TimerFire

\* the voice surface: the connection, the data channel, the clock
NextVoice ==
  \/ handleSelectVoice
  \/ SwitchToTyping
  \/ SwitchToTalking
  \/ StartVoiceConversation
  \/ StopSpeaking
  \/ TokenResult
  \/ MicResult
  \/ OfferResult
  \/ SdpResult
  \/ RemoteResult
  \/ ClosedResult
  \/ DcOpen
  \/ RemoteEvent
  \/ Tick

Next ==
  \/ NextText
  \/ BrainResult
  \/ NextPanel
  \/ AvatarResult
  \/ NextLoop
  \/ NextVoice
  \/ Unmount

Spec == Init /\ [][Next]_vars

\* a user who only types, in either build
SpecText ==
  /\ \E prod \in BOOLEAN : InitFor(prod, TypingUser)
  /\ [][NextText \/ BrainResult \/ AvatarResult \/ NextLoop \/ Unmount]_vars

\* a user who types one command at a time, in either build
SpecPatient ==
  /\ \E prod \in BOOLEAN : InitFor(prod, PatientUser)
  /\ [][NextText \/ BrainResult \/ AvatarResult \/ NextLoop \/ Unmount]_vars

\* a user whose commands overlap with a pending compiler call (production
\* build)
SpecOverlap ==
  /\ InitFor(TRUE, OverlapUser)
  /\ [][handleSelectText \/ Submitted \/ BrainResult \/ AvatarResult \/ NextLoop]_vars

\* a user who cycles through the project screens (development build)
SpecRotate ==
  /\ InitFor(FALSE, RotateUser)
  /\ [][NextText \/ AvatarResult]_vars

\* a user who types their way into the timeline loop and out of it
\* (development build)
SpecLoop ==
  /\ InitFor(FALSE, LoopUser)
  /\ [][NextText \/ AvatarResult \/ NextLoop \/ Unmount]_vars

\* a user who starts the loop with the persona control of the avatar panel
\* at hand (development build)
SpecLoopPanel ==
  /\ InitFor(FALSE, PanelUser)
  /\ [][NextText \/ AvatarResult \/ NextLoop \/ PersonaChanged]_vars

\* a user who opens the CV and starts the loop; every timer that was set and
\* not cleared fires in the end (development build)
SpecLoopFair ==
  /\ InitFor(FALSE, EagerUser)
  /\ [][NextText \/ AvatarResult \/ NextLoop \/ Unmount]_vars
  /\ WF_vars(TimerFire)

\* a user who sets the language, by command and with the picker, while time
\* passes (development build)
SpecLanguage ==
  /\ InitFor(FALSE, LanguageUser)
  /\ [][NextText \/ AvatarResult \/ LanguagePicked \/ Elapse]_vars

\* a user who only talks (development build)
SpecVoice ==
  /\ InitFor(FALSE, VoiceUser)
  /\ [][NextVoice \/ AvatarResult \/ Unmount]_vars

(***************************************************************************)
(* Properties.                                                             *)
(***************************************************************************)
StopPhrases == {"stop", "cancel", "halt", "be quiet", "shut up", "silence"}

Released(v) ==
  /\ v.status = "idle" /\ v.pc = NoPc /\ v.dc = "none"
  /\ ~v.micStream /\ ~v.audioEl

Greetings == {greeting("en"), greeting("de")}

\* C1: every step leaves a history of length >= 1 whose first element is the
\* home screen, and a GO_BACK command on a history of length 1 leaves the
\* history as it was.
C1_HistoryNeverEmpty ==
  [][/\ Len(app'.history) >= 1
     /\ app'.history[1] = homeScreen
     /\ (obs'.intent = "GO_BACK" /\ Len(app.history) = 1)
          => app'.history = app.history]_vars

\* GO_BACK was typed on the home screen while a compiler call of an earlier
\* command was still pending
C1_Witness ==
  /\ obs.intent = "GO_BACK" /\ Len(app.history) = 1
  /\ net.brains # {}

\* C2: a handled command whose trimmed, lower-cased text is a stop phrase
\* leaves no loop, issues no compiler or narration request and never reaches
\* the intent classifier.
C2_StopPhraseWins ==
  (obs.handled /\ toLowerCase(trim(obs.text)) \in StopPhrases)
    => /\ app.loopMode = NoLoop
       /\ obs.requests = 0
       /\ obs.intent = ""

\* " Stop " was typed while the timeline loop was running
C2_Witness ==
  /\ obs.handled /\ obs.text = " Stop "
  /\ obs.was.loop.kind = "timeline"
  /\ app.loopMode = NoLoop

\* C3: an armed timer always belongs to the current loop step, so once the
\* loop is cancelled no timer is left to fire; a loop narration that is not
\* cancelled is the one of the current step; and a narration that is shown
\* is the one of the current step.
C3_CancelledLoopStaysSilent ==
  /\ \A tm \in net.timers :
       /\ app.mounted
       /\ app.loopMode.kind = "timeline"
       /\ tm = [ids |-> app.loopMode.ids, index |-> app.loopMode.index]
  /\ \A r \in net.loopReqs :
       ~r.cancelled =>
         /\ app.loopMode.kind = "timeline"
         /\ r.focus = app.loopMode.ids[app.loopMode.index + 1]
  /\ obs.loopNarrated # Null =>
       /\ app.loopMode.kind = "timeline"
       /\ obs.loopNarrated = app.loopMode.ids[app.loopMode.index + 1]

\* a new command arrived after the first tick of a loop over three entries:
\* the loop is off, no timer is armed, the narration of the second entry is
\* pending and cancelled
C3_Witness ==
  /\ obs.handled
  /\ obs.was.loop.kind = "timeline" /\ obs.was.loop.index = 1
  /\ Len(obs.was.loop.ids) = 3
  /\ app.loopMode = NoLoop
  /\ net.timers = {}
  /\ \E r \in net.loopReqs : r.cancelled /\ r.focus = obs.was.loop.ids[2]

\* C4 (as claimed): once the data channel is open, nothing that was handed to
\* sendEvent before the open is undelivered.
C4_QueuedUntilOpen ==
  voice.dc = "open" => net.dropped = <<>>

\* C5 (as claimed): the status is connected only while the data channel is
\* open, and the greeting of startVoice is written to the channel.
C5_ConnectedMeansOpen ==
  /\ voice.status = "connected" => voice.dc = "open"
  /\ obs.spoken \in Greetings => Len(obs.delivered) = 2

\* C6: a step that called disconnect() leaves the client idle with the peer
\* connection, the data channel, the microphone stream and the audio element
\* released; and from every state, disconnect() does that and a second call
\* in a row changes nothing.
C6_DisconnectSafe ==
  /\ obs.disc > 0 => Released(voice)
  /\ LET d == disconnect(World)
         dd == disconnect(d)
     IN /\ Released(d.voice)
        /\ dd.voice = d.voice /\ dd.app = d.app /\ dd.net = d.net

\* disconnect() ran twice in one step on a client that was in the error state
\* and held a peer connection
C6_Witness ==
  /\ obs.disc = 2
  /\ obs.was.status = "error" /\ obs.was.pc
  /\ Released(voice)

\* C7 (as claimed): the status moves only along idle -> connecting,
\* connecting -> connected, connecting -> error and any -> idle.
C7_StatusEdges ==
  [][\/ voice'.status = voice.status
     \/ voice'.status = "idle"
     \/ voice.status = "idle" /\ voice'.status = "connecting"
     \/ voice.status = "connecting" /\ voice'.status \in {"connected", "error"}]_vars

\* C8 (as claimed): when voice is started while the session shows the error
\* state and that startVoice gets to call connect(), a fresh attempt starts:
\* the status is connecting.
C8_RetryAfterError ==
  (obs.connectCalled /\ obs.startedFrom = "error")
    => voice.status = "connecting"

\* C9 (as claimed): a final user transcript with text is forwarded iff the
\* mode is voice and at least 900 ms have passed since the last accepted one.
C9_AtLeast900 ==
  obs.final =>
    (obs.forwarded <=> (app.mode = "voice" /\ obs.elapsed >= DebounceMs))

\* C9 (amended): a final user transcript with text is forwarded iff the mode
\* is voice and more than 900 ms have passed since the last accepted one; a
\* rejected transcript leaves the time of the last accepted one as it was.
C9_MoreThan900 ==
  obs.final =>
    /\ obs.forwarded <=> (app.mode = "voice" /\ obs.elapsed > DebounceMs)
    /\ ~obs.forwarded => app.lastVoiceCommandAt = obs.lastBefore

\* a transcript arrived in voice mode exactly 900 ms after the last accepted
\* one and was not forwarded
C9_Witness ==
  /\ obs.final /\ ~obs.forwarded
  /\ app.mode = "voice"
  /\ obs.elapsed = DebounceMs

\* C10: right after every response-cancel request the speaking flag is
\* clear, and a step that cancelled without speaking anew ends with it clear.
C10_CancelClearsSpeaking ==
  obs.cancelled =>
    /\ ~obs.cancelFlag
    /\ obs.spoken = Null => ~app.assistantSpeaking

\* a cancel request went out on the open channel while the assistant was
\* speaking
C10_Witness ==
  /\ obs.cancelled /\ obs.was.speaking
  /\ obs.delivered = <<"response.cancel">>
  /\ ~app.assistantSpeaking

\* the same command handled in the build without a remote compiler, and in
\* the build with one whose call fails before anything else happens
WithoutCompiler(t) == handleCommand([Begin EXCEPT !.env.isProd = FALSE], t, "text")

WithFailedCompiler(t) ==
  LET sent == handleCommand([Begin EXCEPT !.env.isProd = TRUE], t, "text")
      pend == sent.net.brains \ net.brains
  IN IF pend = {} THEN sent
     ELSE afterBrain(sent, CHOOSE c \in pend : TRUE, NoBrain)

C12_NoMutationsIsFailure ==
  obs.brainBody = "no_mutations" => obs.fellBack

\* C13: a narration call that fails (of a command or of a loop step) leaves
\* the history, the system message, the narration and the focus as they
\* were, enters no error state, speaks nothing and ends with the thinking
\* flag false.
C13_NarrationFailureIsSilent ==
  [][(obs'.avatarFailed /\ app.mounted) =>
       /\ app'.history = app.history
       /\ app'.systemPrompt = app.systemPrompt
       /\ app'.avatarNarration = app.avatarNarration
       /\ app'.focusTarget = app.focusTarget
       /\ app'.voiceStatus = app.voiceStatus
       /\ app'.voiceError = app.voiceError
       /\ obs'.spoken = Null /\ obs'.delivered = <<>>
       /\ ~app'.avatarThinking]_vars

\* the narration of a SHOW_CV command failed: the CV screen is shown and the
\* thinking flag is off
C13_Witness ==
  /\ obs.avatarFailed /\ obs.answered > 0 /\ app.mounted
  /\ Len(app.history) = 2 /\ Last(app.history) = cvScreen
  /\ ~app.avatarThinking

\* C14 (as claimed): the focus target is null or the id of an element of the
\* current screen.
C14_FocusOnScreen ==
  \/ app.focusTarget = Null
  \/ app.focusTarget \in collectAllowedFocusTargets(Last(app.history))

\* C15 (as claimed): an answer to an older command that arrives right after
\* the answer to a newer one does not overwrite the narration or the focus
\* target that the newer answer set.
C15_StaleDiscarded ==
  [][(obs'.answered > 0 /\ obs.answered > obs'.answered) =>
       /\ obs.narrated => app'.avatarNarration = app.avatarNarration
       /\ obs.focused => app'.focusTarget = app.focusTarget]_vars

\* C16 (as claimed): a command handled in voice mode while the assistant is
\* speaking first sends response.cancel and is then classified and dispatched
\* in the same step.
C16_BargeInCancelsFirst ==
  (obs.handled /\ app.mode = "voice" /\ obs.was.speaking) =>
    /\ obs.delivered # <<>> /\ obs.delivered[1] = "response.cancel"
    /\ obs.stopped \/ obs.intent # ""

(***************************************************************************)
(* The mutation engine on its own: a screen drawn from the static screens  *)
(* and a screen without any widget the mutations address, and mutations    *)
(* of every kind (and of a kind the engine does not know) applied to it    *)
(* one after the other. trail keeps the screen before each application.    *)
(***************************************************************************)
textOnlyScreen ==
  [screenId |-> "plain", layout |-> "row",
   widgets |-> << [type |-> "text", content |-> "Nothing else"] >>]

\* a screen with two widgets of every kind the mutations address
twinScreen ==
  [screenId |-> "twin", layout |-> "column",
   widgets |-> <<
     [type |-> "tag_list", tags |-> <<"Java">>],
     projectListFromProjects(allProjects),
     [type |-> "timeline",
      entries |-> << [id |-> "pre-it", title |-> "Previous professional experience",
                      period |-> "Before 2024"] >>],
     [type |-> "skill_matrix",
      rows |-> << [area |-> "Frontend", skills |-> <<"React">>, level |-> "solid"],
                  [area |-> "Tooling", skills |-> <<"Git">>, level |-> "daily use"],
                  [area |-> "Backend", skills |-> <<"Vue">>, level |-> "growing"] >>],
     [type |-> "tag_list", tags |-> <<"React", "java">>],
     projectListFromProjects(SelectSeq(allProjects, IsJavaProject)),
     [type |-> "timeline", entries |-> <<>>],
     [type |-> "skill_matrix",
      rows |-> << [area |-> "Front office", skills |-> <<>>, level |-> "none"] >>] >>]

MutateScreens ==
  {homeScreen, javaScreen, backendScreen, cvScreen, textOnlyScreen, twinScreen}

MutateTags == {"Go", "java", "Java"}

MutateInputs ==
  {[kind |-> "ADD_TAG", tag |-> x] : x \in MutateTags}
  \cup {[kind |-> "REMOVE_TAG", tag |-> x] : x \in MutateTags}
  \cup {[kind |-> "ADD_SKILL", area |-> "front", skill |-> "Vue"],
        [kind |-> "ADD_SKILL", area |-> "Design", skill |-> "Figma"],
        [kind |-> "CHANGE_LEVEL", area |-> "Tooling", level |-> "expert"],
        [kind |-> "CHANGE_LEVEL", area |-> "Design", level |-> "expert"],
        [kind |-> "CHANGE_LEVEL", area |-> "END", level |-> "expert"],
        [kind |-> "ADD_TIMELINE_ENTRY",
         entry |-> [id |-> "new-job", title |-> "Developer", period |-> "2026 -"]],
        [kind |-> "FILTER_PROJECTS", tech |-> "JAVA"],
        [kind |-> "FILTER_PROJECTS", tech |-> "rust"],
        [kind |-> "RENAME_SCREEN", name |-> "other"]}

InitMutate ==
  /\ app \in {[screen |-> s, trail |-> <<>>, applied |-> <<>>] : s \in MutateScreens}
  /\ voice = Null /\ net = Null /\ env = Null /\ obs = Null

Mutate(m) ==
  /\ Len(app.applied) < MaxApplied
  /\ app' = [screen |-> applyMutation(app.screen, m),
             trail |-> Append(app.trail, app.screen),
             applied |-> Append(app.applied, m)]
  /\ UNCHANGED <<voice, net, env, obs>>

NextMutate == \E m \in MutateInputs : Mutate(m)

SpecMutate == InitMutate /\ [][NextMutate]_vars

\* the tag lists of a screen, in widget order
tagLists(screen) ==
  LET IsTagList(w) == w.type = "tag_list"
      lists == SelectSeq(screen.widgets, IsTagList)
  IN [i \in 1..Len(lists) |-> lists[i].tags]

sameTag(a, b) == toLowerCase(a) = toLowerCase(b)

\* some tag list of the screen holds a tag equal to x up to letter case
hasTagLike(screen, x) ==
  \E i \in 1..Len(tagLists(screen)) :
    \E j \in 1..Len(tagLists(screen)[i]) : sameTag(tagLists(screen)[i][j], x)

\* the tag lists of the screen without the tags equal to x up to letter case
tagListsWithout(screen, x) ==
  LET Other(t) == ~sameTag(t, x) IN
  [i \in 1..Len(tagLists(screen)) |-> SelectSeq(tagLists(screen)[i], Other)]

\* the last two mutations applied were ADD_TAG x and then REMOVE_TAG x
AddedThenRemoved(x) ==
  /\ Len(app.applied) >= 2
  /\ app.applied[Len(app.applied) - 1] = [kind |-> "ADD_TAG", tag |-> x]
  /\ app.applied[Len(app.applied)] = [kind |-> "REMOVE_TAG", tag |-> x]

\* the screen ADD_TAG was applied to in that case
BeforeAdd == app.trail[Len(app.trail) - 1]

\* C17 (as claimed): after ADD_TAG x and then REMOVE_TAG x the tag lists are
\* those of the screen before the two mutations, for every screen and tag.
C17_AddRemoveRoundTrip ==
  \A x \in MutateTags :
    AddedThenRemoved(x) => tagLists(app.screen) = tagLists(BeforeAdd)

\* C17 (amended): after ADD_TAG x and then REMOVE_TAG x the tag lists are
\* those of the screen before, without every tag equal to x up to letter
\* case; they are the tag lists of the screen before exactly when it had no
\* such tag.
C17_AddRemoveDropsTag ==
  \A x \in MutateTags :
    AddedThenRemoved(x) =>
      /\ tagLists(app.screen) = tagListsWithout(BeforeAdd, x)
      /\ tagLists(app.screen) = tagLists(BeforeAdd) <=> ~hasTagLike(BeforeAdd, x)

\* ADD_TAG Go and REMOVE_TAG Go were applied to the CV screen, whose tag list
\* has no such tag, and the tag list is the one of the CV screen again
C17_Witness ==
  /\ AddedThenRemoved("Go") /\ BeforeAdd = cvScreen
  /\ tagLists(app.screen) = tagLists(cvScreen)
  /\ Len(tagLists(app.screen)) = 1 /\ Len(tagLists(app.screen)[1]) = 6

\* the widgets a mutation addresses are missing from the screen
targetAbsent(screen, m) ==
  LET Has(type) == \E i \in 1..Len(screen.widgets) : screen.widgets[i].type = type
      Row(area) == \E i \in 1..Len(screen.widgets) :
                     /\ screen.widgets[i].type = "skill_matrix"
                     /\ \E j \in 1..Len(screen.widgets[i].rows) :
                          rowMatches(screen.widgets[i].rows[j], area)
  IN CASE m.kind = "ADD_TAG" -> ~Has("tag_list")
       [] m.kind = "REMOVE_TAG" -> ~hasTagLike(screen, m.tag)
       [] m.kind \in {"ADD_SKILL", "CHANGE_LEVEL"} -> ~Row(m.area)
       [] m.kind = "ADD_TIMELINE_ENTRY" -> ~Has("timeline")
       [] m.kind = "FILTER_PROJECTS" -> ~Has("project_list")
       [] OTHER -> TRUE

\* r is a screen with the identity, layout and widget types of s
screenLike(r, s) ==
  /\ DOMAIN r = DOMAIN s
  /\ r.screenId = s.screenId /\ r.layout = s.layout
  /\ Len(r.widgets) = Len(s.widgets)
  /\ \A i \in 1..Len(s.widgets) :
       /\ r.widgets[i].type = s.widgets[i].type
       /\ DOMAIN r.widgets[i] = DOMAIN s.widgets[i]

\* C18: every application returns a screen with the identity, layout and
\* widget types of its input; when the kind is unknown or the target is
\* absent the result has the content of the input, and applying the same
\* mutation once more gives that result again.
C18_ApplyIsTotal ==
  \A k \in 1..Len(app.applied) :
    LET m == app.applied[k]
        before == app.trail[k]
        after == IF k = Len(app.applied) THEN app.screen ELSE app.trail[k + 1]
    IN /\ screenLike(after, before)
       /\ (m.kind \notin KnownKinds \/ targetAbsent(before, m)) =>
            /\ after = before
            /\ (k < Len(app.applied) /\ app.applied[k + 1] = m) =>
                 (IF k + 1 = Len(app.applied) THEN app.screen
                  ELSE app.trail[k + 2]) = after

\* a mutation of an unknown kind was applied twice to the home screen, and a
\* mutation whose target is absent was applied twice to the CV screen
C18_Witness ==
  /\ Len(app.applied) = 2 /\ app.applied[1] = app.applied[2]
  /\ \/ app.applied[1].kind = "RENAME_SCREEN" /\ app.trail[1] = homeScreen
     \/ app.applied[1].kind = "ADD_SKILL" /\ app.trail[1] = cvScreen
  /\ app.screen = app.trail[1]

(***************************************************************************)
(* The session store on its own: a stored item of any shape, storage that  *)
(* works or throws on getItem or on setItem, page loads (loadSession) and  *)
(* the session operations, each applied to the context the previous call   *)
(* returned. An operation that raises leaves the page without a session    *)
(* update; raised records it.                                              *)
(***************************************************************************)
storedCtx(visits) ==
  [visits |-> visits, lastVisit |-> 0,
   screensViewed |-> [id \in ScreenIds |-> IF id = "home" THEN 2 ELSE 0],
   lastFocus |-> "home", personaHints |-> <<"likes_java", "pref_concise">>,
   voiceEnabled |-> TRUE, uiLanguage |-> "de", showLanguagePicker |-> TRUE]

StoredVisits == {-1, 3}

\* no field, one field or every field missing; no field or one field of
\* another type
StoredBlobs ==
  {AbsentBlob, [kind |-> "unparsable"], [kind |-> "null"]}
  \cup {[kind |-> "object", val |-> storedCtx(v), missing |-> m, odd |-> o] :
          v \in StoredVisits,
          m \in {{}, SessionFields} \cup {{f} : f \in SessionFields},
          o \in {{}} \cup {{f} : f \in SessionFields \ {"voiceEnabled",
                                                        "showLanguagePicker"}}}

NoSession == [ctx |-> freshSession(0), odd |-> {}]

InitSession ==
  /\ app = [session |-> NoSession, loads |-> 0, ops |-> 0, raised |-> FALSE]
  /\ net \in {[blob |-> b, canRead |-> r, canWrite |-> w] :
                b \in {x \in StoredBlobs :
                         x.kind = "object" => x.missing \cap x.odd = {}},
                r \in BOOLEAN, w \in BOOLEAN}
  /\ env = [now |-> StartNow]
  /\ voice = Null
  /\ obs = [op |-> "", before |-> NoSession, usable |-> FALSE]

SessionStep(op, session, store, raised, usable) ==
  /\ app' = [app EXCEPT !.session = session, !.raised = raised,
                        !.loads = IF op = "load" THEN @ + 1 ELSE @,
                        !.ops = IF op = "load" THEN @ ELSE @ + 1]
  /\ net' = store
  /\ env' = [env EXCEPT !.now = @ + 1]
  /\ obs' = [op |-> op, before |-> app.session, usable |-> usable]
  /\ UNCHANGED voice

CanOperate == app.loads > 0 /\ ~app.raised /\ app.ops < MaxSessionOps

Load ==
  /\ ~app.raised /\ app.loads < MaxLoads
  /\ LET r == loadSession(net, env.now) IN
     SessionStep("load", r.session, r.store, FALSE,
                 net.canRead /\ net.blob.kind = "object")

\* variant: the mark is kept in memory and not written
MarkScreenUnsaved(screenId) ==
  /\ CanOperate
  /\ LET session == [ctx |-> markScreen(app.session.ctx, screenId, env.now),
                     odd |-> app.session.odd \ {"screensViewed", "lastFocus"}]
     IN SessionStep("markScreen", session, net, FALSE, FALSE)

\* ctx.screensViewed[screenId] ?? 0 and the spread give the marked screen
\* alone when screensViewed holds a number
MarkScreen(screenId) ==
  /\ CanOperate
  /\ LET session == [ctx |-> markScreen(app.session.ctx, screenId, env.now),
                     odd |-> app.session.odd \ {"screensViewed", "lastFocus"}]
     IN SessionStep("markScreen", session, saveSession(net, session), FALSE, FALSE)

\* ctx.personaHints.filter raises when personaHints is not a list
SetPersonaPreference(pref) ==
  /\ CanOperate
  /\ IF "personaHints" \in app.session.odd
     THEN SessionStep("setPersonaPreference", app.session, net, TRUE, FALSE)
     ELSE LET session == [app.session EXCEPT
                            !.ctx = setPersonaPreference(@, pref, env.now)]
          IN SessionStep("setPersonaPreference", session,
                         saveSession(net, session), FALSE, FALSE)

SetUILanguage(lang) ==
  /\ CanOperate
  /\ LET session == [app.session EXCEPT !.ctx = setUILanguage(@, lang, env.now)]
     IN SessionStep("setUILanguage", session, saveSession(net, session), FALSE, FALSE)

ShowLanguageSelection(show) ==
  /\ CanOperate
  /\ LET session == [app.session EXCEPT
                       !.ctx = showLanguageSelection(@, show, env.now)]
     IN SessionStep("showLanguageSelection", session, saveSession(net, session),
                    FALSE, FALSE)

NextSession ==
  \/ Load
  \/ \E id \in {"home", "cv_download"} : MarkScreen(id)
  \/ \E pref \in {"balanced", "detailed"} : SetPersonaPreference(pref)
  \/ SetUILanguage("en")
  \/ ShowLanguageSelection(FALSE)

SpecSession == InitSession /\ [][NextSession]_vars

\* C19: with working storage a load that follows an earlier load returns
\* visits one greater than the session held before it and the same
\* screensViewed and personaHints, whatever was recorded in between.
C19_ReloadKeepsSession ==
  (obs.op = "load" /\ app.loads >= 2 /\ net.canRead /\ net.canWrite) =>
    /\ app.session.ctx.visits = obs.before.ctx.visits + 1
    /\ app.session.ctx.screensViewed = obs.before.ctx.screensViewed
    /\ app.session.ctx.personaHints = obs.before.ctx.personaHints
    /\ app.session.odd = obs.before.odd

\* a second load after the CV screen was marked and the detailed persona was
\* chosen: fourth visit, both still there
C19_Witness ==
  /\ obs.op = "load" /\ app.loads = 2 /\ net.canRead /\ net.canWrite
  /\ app.session.ctx.visits = 5
  /\ app.session.ctx.screensViewed["cv_download"] = 1
  /\ app.session.ctx.screensViewed["home"] = 2
  /\ app.session.ctx.personaHints = <<"likes_java", "pref_detailed">>

\* C20 (as claimed): whatever is stored and however storage behaves, a load
\* returns a context whose fields all have their declared type, a fresh one
\* (visits 1, nothing viewed, no hints) when nothing usable is stored, and
\* no later session operation raises.
C20_LoadNeverFails ==
  app.loads > 0 =>
    /\ app.session.odd = {}
    /\ ~app.raised
    /\ (obs.op = "load" /\ ~obs.usable) =>
         /\ app.session.ctx.visits = 1
         /\ app.session.ctx.screensViewed = [id \in ScreenIds |-> 0]
         /\ app.session.ctx.personaHints = <<>>

\* C21: once a session was loaded and storage takes writes, the stored item
\* is the serialised in-memory session after every operation.
C21_StoredIsCurrent ==
  (app.loads > 0 /\ net.canWrite) => net.blob = stringify(app.session)

\* a screen mark and then a persona preference were recorded after a load
\* with working storage, and the stored item carries both
C21_Witness ==
  /\ app.loads = 1 /\ app.ops = 2 /\ net.canRead /\ net.canWrite
  /\ obs.op = "setPersonaPreference"
  /\ net.blob.kind = "object"
  /\ net.blob.val.screensViewed["cv_download"] = 1
  /\ net.blob.val.personaHints = <<"likes_java", "pref_detailed">>

(***************************************************************************)
(* The intent classifier on its own: a text is put together from phrases,  *)
(* one per rule and one that no rule knows, or is one of the fixed         *)
(* examples, and is then parsed.                                           *)
(***************************************************************************)
Phrases ==
  {"language", "switch to english", "switch to german", "cv", "loop the timeline",
   "go back", "projects", "show java", "something else", "hello there"}

ExampleTexts ==
  {"", "   ", "cv", " CV ", "show me java projects", "go back", "Go Back",
   "loop the timeline", "english", "Deutsch", "back", "java", "firebase work",
   "show more", "zeige backend"}

NotParsed == Intent("", Null)

InitParse ==
  /\ app \in {[text |-> t, parts |-> <<>>, intent |-> NotParsed] : t \in ExampleTexts}
  /\ voice = Null /\ net = Null /\ env = Null /\ obs = Null

Say(phrase) ==
  /\ app.intent = NotParsed /\ Len(app.parts) < MaxParts
  /\ app.parts = <<>> => app.text = ""
  /\ app' = [app EXCEPT !.text = IF app.parts = <<>> THEN phrase
                                 ELSE @ \o " " \o phrase,
                        !.parts = Append(@, phrase)]
  /\ UNCHANGED <<voice, net, env, obs>>

Parse ==
  /\ app.intent = NotParsed
  /\ app' = [app EXCEPT !.intent = parseIntent(app.text)]
  /\ UNCHANGED <<voice, net, env, obs>>

NextParse == Parse \/ \E phrase \in Phrases : Say(phrase)

SpecParse == InitParse /\ [][NextParse]_vars

\* the place of an intent in the order of the rules
priority(type) ==
  CASE type = "SHOW_LANGUAGE_SELECTION" -> 1
    [] type \in {"SET_LANGUAGE_EN", "SET_LANGUAGE_DE"} -> 2
    [] type = "SHOW_CV" -> 3
    [] type = "LOOP_TIMELINE" -> 4
    [] type = "GO_BACK" -> 5
    [] type = "SHOW_PROJECTS" -> 6
    [] type = "SHOW_ANY_PROJECTS" -> 7
    [] type = "UNKNOWN" -> 8

\* the rule a phrase belongs to
phrasePriority(phrase) ==
  CASE phrase = "language" -> 1
    [] phrase \in {"switch to english", "switch to german"} -> 2
    [] phrase = "cv" -> 3
    [] phrase = "loop the timeline" -> 4
    [] phrase = "go back" -> 5
    [] phrase \in {"projects", "show java"} -> 6
    [] phrase = "something else" -> 7
    [] OTHER -> 8

\* what the specification gives for the fixed examples
exampleIntents ==
  [t \in {"", "cv", "show me java projects", "go back", "loop the timeline"} |->
     CASE t = "" -> Intent("UNKNOWN", Null)
       [] t = "cv" -> Intent("SHOW_CV", Null)
       [] t = "show me java projects" -> Intent("SHOW_PROJECTS", "java")
       [] t = "go back" -> Intent("GO_BACK", Null)
       [] t = "loop the timeline" -> Intent("LOOP_TIMELINE", Null)]

\* C22: every text is classified as one of the nine intents; a text put
\* together from phrases gets the intent of the phrase whose rule comes first
\* in the order of the rules, and the fixed examples get the stated intents.
C22_PriorityOrder ==
  app.intent # NotParsed =>
    /\ priority(app.intent.type) \in 1..8
    /\ app.parts # <<>> =>
         \A k \in 1..Len(app.parts) :
           priority(app.intent.type) <= phrasePriority(app.parts[k])
    /\ app.parts # <<>> =>
         \E k \in 1..Len(app.parts) :
           priority(app.intent.type) = phrasePriority(app.parts[k])
    /\ app.text \in DOMAIN exampleIntents => app.intent = exampleIntents[app.text]

\* a text with a go-back phrase first and a CV phrase second was parsed as
\* SHOW_CV
C22_Witness ==
  /\ app.parts = <<"go back", "cv">> /\ app.text = "go back cv"
  /\ app.intent.type = "SHOW_CV"

\* the projects listed on a screen
projectsOn(screen) ==
  LET IsList(w) == w.type = "project_list"
      lists == SelectSeq(screen.widgets, IsList)
  IN IF lists = <<>> THEN <<>> ELSE lists[1].projects

\* C23: a SHOW_PROJECTS command, with or without a compiler service and
\* whatever the service answers to other commands, appends exactly one screen
\* with a non-empty project list to the history, asks for one narration and
\* sends nothing to the compiler; every screen the local rules choose for
\* SHOW_PROJECTS lists at least one project.
C23_ShowProjectsPushes ==
  [][(obs'.handled /\ obs'.intent = "SHOW_PROJECTS" /\ app.mounted) =>
       /\ Len(app'.history) = Len(app.history) + 1
       /\ SubSeq(app'.history, 1, Len(app.history)) = app.history
       /\ projectsOn(Last(app'.history)) # <<>>
       /\ net'.brains = net.brains
       /\ Cardinality(net'.cmds) = Cardinality(net.cmds) + 1
       /\ \A tech \in {Null, "java", "backend", "firebase"} :
            LET d == decideIntent(Intent("SHOW_PROJECTS", tech), "", Last(app.history),
                                  env.now)
            IN d.kind = "push" /\ projectsOn(d.screen) # <<>>]_vars

\* with a compiler service in place and a request to it still unanswered,
\* "java projects" has put the Java screen on top of the history
C23_Witness ==
  /\ obs.handled /\ obs.intent = "SHOW_PROJECTS" /\ env.isProd
  /\ net.brains # {}
  /\ Last(app.history) = javaScreen /\ Len(app.history) = 2
  /\ Len(projectsOn(Last(app.history))) = 1

\* C24: a LOOP_TIMELINE command on a screen without a timeline, or with a
\* timeline without entries, leaves the loop state empty and the history as
\* it was and sets the explanatory message; on any other screen it leaves the
\* history as it was and makes the loop state the timeline's entry ids in
\* their order with index 0.
C24_LoopTimelineStarts ==
  [][(obs'.handled /\ obs'.intent = "LOOP_TIMELINE" /\ app.mounted) =>
       LET tl == timelineOf(Last(app.history)) IN
       /\ app'.history = app.history
       /\ IF tl = <<>> \/ tl[1].entries = <<>>
          THEN /\ app'.loopMode = NoLoop
               /\ app'.systemPrompt = "There is no timeline on this view to loop through."
          ELSE /\ app'.loopMode.kind = "timeline"
               /\ app'.loopMode.index = 0
               /\ app'.loopMode.ids =
                    [i \in 1..Len(tl[1].entries) |-> tl[1].entries[i].id]]_vars

\* the loop was started on the CV screen with its three entries
C24_Witness ==
  /\ obs.handled /\ obs.intent = "LOOP_TIMELINE"
  /\ Last(app.history) = cvScreen
  /\ app.loopMode = Loop(<<"wbs-ausbildung", "bth-web", "pre-it">>, 0)

\* C25 (as claimed): outside the handling of a command, a narration request
\* for a loop step is issued only in a step that moves the loop state to that
\* step; nothing else that happens while the step is current asks again.
C25_OneRequestPerStep ==
  [][(obs'.loopAsked # Null /\ ~obs'.handled) => app'.loopMode # app.loopMode]_vars

LanguageIntents == {"SHOW_LANGUAGE_SELECTION", "SET_LANGUAGE_EN", "SET_LANGUAGE_DE"}

\* C26 (as claimed): a language command leaves the history and the pending
\* requests as they were and changes no field of the session other than
\* uiLanguage and showLanguagePicker.
C26_LanguageOnlyFlips ==
  [][(obs'.handled /\ obs'.intent \in LanguageIntents /\ app.mounted) =>
       /\ app'.history = app.history
       /\ net'.brains = net.brains /\ net'.cmds = net.cmds
       /\ \A f \in DOMAIN app.session \ {"uiLanguage", "showLanguagePicker"} :
            app'.session[f] = app.session[f]]_vars

\* C26 (amended): a language command leaves the history and the pending
\* requests as they were; in the session it sets showLanguagePicker (on for
\* SHOW_LANGUAGE_SELECTION, off for the two others), uiLanguage (for the two
\* others) and lastVisit (the time of the command) and nothing else, and the
\* stored session is the one in memory.
C26_LanguageFlipsAndStamps ==
  [][(obs'.handled /\ obs'.intent \in LanguageIntents /\ app.mounted) =>
       /\ app'.history = app.history
       /\ net'.brains = net.brains /\ net'.cmds = net.cmds
       /\ app'.session =
            [app.session EXCEPT
               !.showLanguagePicker = obs'.intent = "SHOW_LANGUAGE_SELECTION",
               !.uiLanguage = CASE obs'.intent = "SET_LANGUAGE_EN" -> "en"
                                [] obs'.intent = "SET_LANGUAGE_DE" -> "de"
                                [] OTHER -> @,
               !.lastVisit = env'.now]
       /\ net'.stored = app'.session]_vars

\* German was set by command some time after the page was loaded
C26_Witness ==
  /\ obs.handled /\ obs.intent = "SET_LANGUAGE_DE"
  /\ app.session.uiLanguage = "de" /\ ~app.session.showLanguagePicker
  /\ app.session.lastVisit > StartNow
  /\ app.history = <<homeScreen>>

\* C27: when a command has asked for its narration, the history it had set
\* by then is the history at the end of the step: no command changes the
\* screen after asking.
C27_ScreenBeforeNarration ==
  (obs.narrationAsked /\ app.mounted) => obs.histAtAsk = app.history

\* "go back" on the CV screen: the history was cut back to the home screen
\* and the narration was asked for after that
C27_Witness ==
  /\ obs.narrationAsked /\ obs.intent = "GO_BACK" /\ app.mounted
  /\ obs.histAtAsk = <<homeScreen>> /\ app.history = <<homeScreen>>
  /\ obs.cmdAsked.currentScreen = cvScreen

\* C28 (as claimed): the screen a command sends with its narration request
\* is the current screen after the command, and the history it sends is the
\* history after the command.
C28_AsksForResultingScreen ==
  (obs.narrationAsked /\ app.mounted) =>
    /\ obs.cmdAsked.currentScreen = Last(app.history)
    /\ obs.cmdAsked.history = app.history

\* C29 (as claimed): a compiler answer whose mutations leave the content of
\* the screen as it was adds no history entry.
C29_NoPushWithoutChange ==
  [][(obs'.compiled /\ app.mounted /\ obs'.brainTo = obs'.brainFrom) =>
       app'.history = app.history]_vars

\* the loop is running on a mounted page
looping == app.loopMode.kind = "timeline" /\ app.mounted

\* C30 (as claimed): while a loop runs the focus is ids[index] and the timer of that step
\* is set; a step that handles no command, uses no control of the page and
\* does not tear the page down leaves the loop state alone, or moves the
\* index up by exactly one, or, from the last index, empties the loop state;
\* and every loop ends.
C30_LoopRunsInOrder ==
  /\ [](looping =>
          /\ app.loopMode.index < Len(app.loopMode.ids)
          /\ app.focusTarget = app.loopMode.ids[app.loopMode.index + 1]
          /\ net.timers = {[ids |-> app.loopMode.ids, index |-> app.loopMode.index]})
  /\ [][(looping /\ ~obs'.handled /\ env'.clickCount = env.clickCount
            /\ app'.mounted) =>
          \/ app'.loopMode = app.loopMode
          \/ /\ app.loopMode.index + 1 < Len(app.loopMode.ids)
             /\ app'.loopMode = Loop(app.loopMode.ids, app.loopMode.index + 1)
          \/ /\ app.loopMode.index + 1 = Len(app.loopMode.ids)
             /\ app'.loopMode = NoLoop]_vars
  /\ (looping ~> (app.loopMode = NoLoop \/ ~app.mounted))

\* C31 (as claimed): a step in which a compiler answer arrives keeps every
\* entry the history has at that moment, and when it pushes a screen, the
\* screen its mutations were applied to is the screen current at that moment.
C31_OverlappingSerialized ==
  [][(obs'.brainBody # "" /\ app.mounted) =>
       /\ Len(app'.history) >= Len(app.history)
       /\ SubSeq(app'.history, 1, Len(app.history)) = app.history
       /\ (obs'.compiled /\ Len(app'.history) > Len(app.history)) =>
            obs'.brainFrom = Last(app.history)]_vars

\* C32 (as claimed): the answer to a narration request that was in flight
\* when a stop phrase was processed changes neither the narration shown nor
\* is it spoken.
C32_StopSilencesInFlight ==
  [][\A c \in net.cmds :
       (c.stopped /\ c \notin net'.cmds /\ obs'.answered = c.cmd /\ app.mounted) =>
         /\ app'.avatarNarration = app.avatarNarration
         /\ obs'.spoken = Null]_vars

\* C33 (as claimed): a voice client whose status is idle holds no peer
\* connection, no data channel, no microphone stream and no audio element.
C33_IdleHoldsNothing ==
  voice.status = "idle" =>
    /\ voice.pc = NoPc
    /\ voice.dc = "none"
    /\ ~voice.micStream
    /\ ~voice.audioEl

\* C34 (as claimed): when the interaction mode is not voice and no startVoice
\* is in flight any more, the voice client is idle and not connected.
C34_LeavingVoiceDisconnects ==
  (app.mounted /\ app.mode # "voice" /\ net.starts = {}) =>
    /\ voice.status = "idle"
    /\ voice.pc = NoPc

\* C35 (as claimed): from a local cancel that cleared the speaking flag until
\* a response is requested or created, the flag is clear.
C35_CancelledStaysSilent ==
  net.silenced => ~app.assistantSpeaking

\* C36 (as claimed): while a loop runs, every id it steps through is the id
\* of an entry of a timeline on the current screen.
C36_LoopIdsOnScreen ==
  looping =>
    LET tl == timelineOf(Last(app.history)) IN
    /\ tl # <<>>
    /\ \A i \in 1..Len(app.loopMode.ids) : SeqHas(entryIds(tl[1]), app.loopMode.ids[i])

\* the row's area equals or contains the requested area, letter case aside
areaLike(row, area) == includes(toLowerCase(row.area), toLowerCase(area))

\* the project has a tech-stack entry that contains the filter, letter case
\* aside
usesTech(proj, tech) ==
  \E i \in 1..Len(proj.techStack) :
    includes(toLowerCase(proj.techStack[i]), toLowerCase(tech))

\* a is what the mutation m makes of the skill-matrix row b
rowAfter(a, b, m) ==
  IF ~areaLike(b, m.area) THEN a = b
  ELSE IF m.kind = "CHANGE_LEVEL" THEN a = [b EXCEPT !.level = m.level]
  ELSE /\ [a EXCEPT !.skills = b.skills] = b
       /\ SeqHas(a.skills, m.skill)
       /\ a.skills \in {b.skills, Append(b.skills, m.skill)}

\* a is what the mutation m makes of the widget b
widgetAfter(a, b, m) ==
  LET NotLike(t) == ~sameTag(t, m.tag)
      Uses(proj) == usesTech(proj, m.tech)
  IN CASE m.kind = "ADD_TAG" /\ b.type = "tag_list" ->
            /\ [a EXCEPT !.tags = b.tags] = b
            /\ SeqHas(a.tags, m.tag)
            /\ a.tags \in {b.tags, Append(b.tags, m.tag)}
       [] m.kind = "REMOVE_TAG" /\ b.type = "tag_list" ->
            a = [b EXCEPT !.tags = SelectSeq(b.tags, NotLike)]
       [] m.kind = "ADD_TIMELINE_ENTRY" /\ b.type = "timeline" ->
            a = [b EXCEPT !.entries = Append(b.entries, m.entry)]
       [] m.kind \in {"ADD_SKILL", "CHANGE_LEVEL"} /\ b.type = "skill_matrix" ->
            /\ [a EXCEPT !.rows = b.rows] = b
            /\ Len(a.rows) = Len(b.rows)
            /\ \A j \in 1..Len(b.rows) : rowAfter(a.rows[j], b.rows[j], m)
       [] m.kind = "FILTER_PROJECTS" /\ b.type = "project_list" ->
            a = [b EXCEPT !.projects = SelectSeq(b.projects, Uses)]
       [] OTHER -> a = b

\* C37: a mutation changes every widget of the kind it addresses, and in a
\* skill matrix every row whose area matches, as its kind says; every other
\* widget and row is as before.
C37_EveryTargetChanged ==
  \A k \in 1..Len(app.applied) :
    LET m == app.applied[k]
        before == app.trail[k]
        after == IF k = Len(app.applied) THEN app.screen ELSE app.trail[k + 1]
    IN /\ Len(after.widgets) = Len(before.widgets)
       /\ \A i \in 1..Len(before.widgets) :
            widgetAfter(after.widgets[i], before.widgets[i], m)

\* ADD_TAG Go and then CHANGE_LEVEL END were applied to the screen with two
\* tag lists and two skill matrices: both lists end in Go, and the rows
\* Frontend and Backend have the new level
C37_Witness ==
  /\ app.trail = <<twinScreen, addTag(twinScreen, "Go")>>
  /\ app.applied[2] = [kind |-> "CHANGE_LEVEL", area |-> "END", level |-> "expert"]
  /\ tagLists(app.screen) = << <<"Java", "Go">>, <<"React", "java", "Go">> >>
  /\ app.screen.widgets[4].rows[1].level = "expert"
  /\ app.screen.widgets[4].rows[2].level = "daily use"
  /\ app.screen.widgets[4].rows[3].level = "expert"
  /\ app.screen.widgets[8].rows[1].level = "none"

\* the screen id that follows id in the rotation
rotation(id) ==
  CASE id = "home" -> "backend_projects"
    [] id = "backend_projects" -> "java_projects"
    [] id = "java_projects" -> "home"
    [] OTHER -> "home"

\* C38: a SHOW_ANY_PROJECTS command pushes the static screen that follows
\* the current screen id in the rotation, and the history grows by that one
\* entry; three screens pushed after a home screen, none of them the CV, are
\* backend_projects, java_projects and home again.
C38_RotationOfThree ==
  /\ [][(obs'.handled /\ obs'.intent = "SHOW_ANY_PROJECTS") =>
          /\ Len(app'.history) = Len(app.history) + 1
          /\ SubSeq(app'.history, 1, Len(app.history)) = app.history
          /\ Last(app'.history) \in {homeScreen, backendScreen, javaScreen}
          /\ Last(app'.history).screenId = rotation(Last(app.history).screenId)]_vars
  /\ [](\A k \in 1..Len(app.history) :
          (/\ k + 3 <= Len(app.history)
           /\ app.history[k].screenId = "home"
           /\ \A j \in 1..3 : app.history[k + j] # cvScreen) =>
            /\ app.history[k + 1] = backendScreen
            /\ app.history[k + 2] = javaScreen
            /\ app.history[k + 3] = homeScreen)

\* "something else" was typed three times on the home screen
C38_Witness ==
  /\ obs.handled /\ obs.intent = "SHOW_ANY_PROJECTS"
  /\ app.history = <<homeScreen, backendScreen, javaScreen, homeScreen>>

(***************************************************************************)
(* The persona preference, applied to sessions with any hints.             *)
(***************************************************************************)
HintPool == {"likes_java", "pref_concise", "pref_detailed", "pref_", "Pref_concise"}

PersonaPreferences == {"balanced", "concise", "detailed"}

HintLists == UNION {[1..n -> HintPool] : n \in 0..MaxHints}

InitPersona ==
  /\ app \in {[ctx |-> [freshSession(0) EXCEPT !.personaHints = h],
               before |-> freshSession(0), pref |-> Null, changes |-> 0] :
                h \in HintLists}
  /\ net \in {[blob |-> AbsentBlob, canRead |-> TRUE, canWrite |-> w] : w \in BOOLEAN}
  /\ voice = Null /\ env = Null /\ obs = Null

ChangePreference(pref) ==
  /\ app.changes < MaxPrefChanges
  /\ LET updated == setPersonaPreference(app.ctx, pref, app.changes + 1) IN
     /\ app' = [ctx |-> updated, before |-> app.ctx, pref |-> pref,
                changes |-> app.changes + 1]
     /\ net' = saveSession(net, [ctx |-> updated, odd |-> {}])
  /\ UNCHANGED <<voice, env, obs>>

NextPersona == \E pref \in PersonaPreferences : ChangePreference(pref)

SpecPersona == InitPersona /\ [][NextPersona]_vars

isPrefHint(h) == Len(h) >= 5 /\ SubSeq(h, 1, 5) = "pref_"

otherHints(ctx) ==
  LET Other(h) == ~isPrefHint(h) IN SelectSeq(ctx.personaHints, Other)

prefHints(ctx) == SelectSeq(ctx.personaHints, isPrefHint)

\* C39: after a preference change the hints that do not start with pref_ are
\* those of before, in their order, at most one hint starts with pref_, the
\* preference read back is the one that was set, and no other field than
\* lastVisit has changed.
C39_PreferenceReadBack ==
  app.changes > 0 =>
    /\ otherHints(app.ctx) = otherHints(app.before)
    /\ Len(prefHints(app.ctx)) <= 1
    /\ getPersonaPreference(app.ctx) = app.pref
    /\ [app.ctx EXCEPT !.personaHints = <<>>, !.lastVisit = 0]
         = [app.before EXCEPT !.personaHints = <<>>, !.lastVisit = 0]

\* "detailed" was set on a session that held both preference hints and one of
\* another kind, and "balanced" after it
C39_Witness ==
  \/ /\ app.changes = 1 /\ app.pref = "detailed"
     /\ app.before.personaHints = <<"pref_concise", "likes_java", "pref_detailed">>
     /\ app.ctx.personaHints = <<"likes_java", "pref_detailed">>
  \/ /\ app.changes = 2 /\ app.pref = "balanced"
     /\ app.before.personaHints = <<"likes_java", "pref_detailed">>
     /\ app.ctx.personaHints = <<"likes_java">>

====
